---- MODULE Spec2Model ----
(***************************************************************************)
(* A model of mkvdolby (tinof/hdr-analyze): the HDR format classifier,     *)
(* the measurements-file lookup, the static-metadata extractor, the        *)
(* trim-target deriver and the per-file conversion workflow.               *)
(*                                                                         *)
(* Strings are TLA+ strings and the substring, prefix, suffix and case     *)
(* operations of the Python code are computed character by character.      *)
(* Python's None is the string None (no file, marker or tool output of the *)
(* model has that name).                                                   *)
(***************************************************************************)
EXTENDS Integers, Sequences, FiniteSets, TLC

VARIABLES
    \* ---- the input file's surroundings
    directory,          \* names of the files in the input file's directory
    probe,              \* outcomes of the external probes for the input file
    details_text,       \* content of the input's Details.txt
    \* ---- results of the functions of metadata.py, "pending" before the call
    found,              \* find_measurements_file
    hdr_checked,        \* check_hdr_format
    static_meta,        \* get_static_metadata
    trims,              \* parse_madvr_details_for_trims
    \* ---- convert_file (conversion.py), one call at a time
    pc,                 \* position in convert_file, "idle" outside a call
    args,               \* the argparse.Namespace of the run
    hdr_type,           \* local hdr_type
    measurements_file,  \* local measurements_file
    hdr10plus_json,     \* local hdr10plus_json
    bl_source_file,     \* local bl_source_file
    trim_targets,       \* local trim_targets
    rpu_call,           \* the arguments generate_rpu was called with
    invoked,            \* external tools invoked by the current call, in order
    result,             \* what the current call returned or raised
    MI_JSON_CACHE,      \* external.MI_JSON_CACHE: absolute path -> parsed mediainfo JSON
    \* ---- history
    entry_dir,          \* the directory when the current call was made
    results,            \* what the completed calls returned or raised
    reclassified,       \* the current call turned HDR10_PLUS into HDR10_UNSUPPORTED
    steps,              \* the steps of convert_file the current call has run, in order
    analyzer_calls,     \* the command lines run_hdr_analyzer has run in the current call
    validated,          \* what validate_static_metadata found
    extra_json,         \* what generate_extra_json wrote
    \* ---- verify_post_mux (verify.py)
    verify_call,        \* the arguments and tool outcomes of a verify_post_mux call
    verified,           \* what verify_post_mux did
    other_call,         \* a second call, on the same counts with other advisory data
    other_verified,     \* what verify_post_mux did in the second call
    \* ---- cli.main
    mi_lookups,         \* the calls of get_mediainfo_json_cached followed one by one
    files_to_process,   \* the inputs named on the command line, in order
    file_temp_dirs,     \* the working subdirectories made so far, with their inputs
    file_index,         \* entries of files_to_process the loop has taken
    had_failure,        \* local had_failure
    exit_code           \* the exit status of the process, once it has ended

envVars == <<directory, probe, details_text>>
resultVars == <<found, hdr_checked, static_meta, trims>>
localVars == <<hdr_type, measurements_file, hdr10plus_json, bl_source_file, trim_targets,
               rpu_call, reclassified>>
callVars == <<pc, args, invoked, result, MI_JSON_CACHE, entry_dir, results>>
traceVars == <<steps, analyzer_calls, validated, extra_json>>
verifyVars == <<verify_call, verified, other_call, other_verified>>
mainVars == <<file_index, had_failure, exit_code>>
batchVars == <<files_to_process, file_temp_dirs>>
lookupVars == <<mi_lookups>>
convertVars == <<localVars, callVars, traceVars, verifyVars, mainVars>>
vars == <<envVars, resultVars, convertVars, batchVars, lookupVars>>

None == "None"
Pending == "pending"

\* ------------------------------------------------------------------ strings

\* Python: m in s
Contains(s, m) ==
    \E i \in 1..(Len(s) - Len(m) + 1) : SubSeq(s, i, i + Len(m) - 1) = m

\* Python: s.startswith(m)
StartsWith(s, m) == Len(m) <= Len(s) /\ SubSeq(s, 1, Len(m)) = m

\* Python: s.endswith(m)
EndsWith(s, m) == Len(m) <= Len(s) /\ SubSeq(s, Len(s) - Len(m) + 1, Len(s)) = m

LowerLetters == <<"a","b","c","d","e","f","g","h","i","j","k","l","m",
                  "n","o","p","q","r","s","t","u","v","w","x","y","z">>
UpperLetters == <<"A","B","C","D","E","F","G","H","I","J","K","L","M",
                  "N","O","P","Q","R","S","T","U","V","W","X","Y","Z">>

UpperChar(c) ==
    IF \E i \in 1..26 : LowerLetters[i] = c
    THEN UpperLetters[CHOOSE i \in 1..26 : LowerLetters[i] = c]
    ELSE c

LowerChar(c) ==
    IF \E i \in 1..26 : UpperLetters[i] = c
    THEN LowerLetters[CHOOSE i \in 1..26 : UpperLetters[i] = c]
    ELSE c

RECURSIVE Upper(_)
\* Python: s.upper()
Upper(s) ==
    IF Len(s) = 0 THEN ""
    ELSE UpperChar(SubSeq(s, 1, 1)) \o Upper(SubSeq(s, 2, Len(s)))

RECURSIVE Lower(_)
\* Python: s.lower()
Lower(s) ==
    IF Len(s) = 0 THEN ""
    ELSE LowerChar(SubSeq(s, 1, 1)) \o Lower(SubSeq(s, 2, Len(s)))

IsSpace(c) == c \in {" ", "\n", "\t", "\r"}

RECURSIVE LStrip(_)
LStrip(s) ==
    IF Len(s) > 0 /\ IsSpace(SubSeq(s, 1, 1)) THEN LStrip(SubSeq(s, 2, Len(s))) ELSE s

RECURSIVE RStrip(_)
RStrip(s) ==
    IF Len(s) > 0 /\ IsSpace(SubSeq(s, Len(s), Len(s)))
    THEN RStrip(SubSeq(s, 1, Len(s) - 1)) ELSE s

\* Python: s.strip()
Strip(s) == RStrip(LStrip(s))

\* Largest index of a "." in s, 0 when there is none (str.rfind + 1).
RECURSIVE RFindDot(_, _)
RFindDot(s, i) ==
    IF i = 0 THEN 0
    ELSE IF SubSeq(s, i, i) = "." THEN i ELSE RFindDot(s, i - 1)

\* os.path.splitext(name)[0] for a name without directory part: the extension
\* starts at the last dot, unless that dot is the leading character.
SplitExtRoot(name) ==
    LET d == RFindDot(name, Len(name))
    IN IF d <= 1 THEN name ELSE SubSeq(name, 1, d - 1)

\* ------------------------------------------------------------ HdrFormat

HDR10_PLUS == "HDR10_PLUS"
HDR10_WITH_MEASUREMENTS == "HDR10_WITH_MEASUREMENTS"
HDR10_UNSUPPORTED == "HDR10_UNSUPPORTED"
HLG == "HLG"
UNSUPPORTED == "UNSUPPORTED"

HdrFormat == {HDR10_PLUS, HDR10_WITH_MEASUREMENTS, HDR10_UNSUPPORTED, HLG, UNSUPPORTED}

\* ------------------------------------------------ find_measurements_file

\* glob.glob(os.path.join(directory, "*" + suffix)): the names ending with the
\* suffix; a leading "*" never matches a name that starts with a dot.
Glob(dir, suffix) ==
    {n \in dir : EndsWith(n, suffix) /\ ~StartsWith(n, ".")}

\* The exact historical names, in the order the code tries them.
MeasurementCandidates(base_with_ext) ==
    LET base_no_ext == SplitExtRoot(base_with_ext)
    IN << "measurements.bin",
          base_with_ext \o ".measurements",
          base_with_ext \o ".measurements",
          base_no_ext \o ".measurements",
          base_no_ext \o "_measurements.bin" >>

\* The stem-prefixed matches of one glob pattern.
PatternMatches(dir, base_with_ext, suffix) ==
    {p \in Glob(dir, suffix) : StartsWith(p, SplitExtRoot(base_with_ext))}

\* UniqueMatch with the test len(pattern_matches) >= 1: one of several is taken.
UniqueMatch_AnyOfSeveral(matches) ==
    IF matches # {} THEN CHOOSE p \in matches : TRUE ELSE None

\* len(pattern_matches) == 1: the only match is taken, several are skipped.
UniqueMatch(matches) ==
    IF Cardinality(matches) = 1 THEN CHOOSE p \in matches : TRUE ELSE None

find_measurements_file(input_file, dir) ==
    LET candidates == MeasurementCandidates(input_file)
        hits == {i \in 1..Len(candidates) : candidates[i] \in dir}
        first == CHOOSE i \in hits : \A j \in hits : i <= j
        m1 == UniqueMatch(PatternMatches(dir, input_file, ".measurements"))
        m2 == UniqueMatch(PatternMatches(dir, input_file, "_measurements.bin"))
    IN IF hits # {} THEN candidates[first]
       ELSE IF m1 # None THEN m1
       ELSE IF m2 # None THEN m2
       ELSE None

\* ------------------------------------------------------ check_hdr_format

\* A mediainfo JSON track is the ordered list of its fields (a Python dict keeps
\* insertion order); isstr tells whether the JSON value is a string, and val is
\* the value (str() of it when it is not a string).
Field(k, v) == [key |-> k, isstr |-> TRUE, val |-> v]
NonStrField(k, v) == [key |-> k, isstr |-> FALSE, val |-> v]

HasKey(track, k) == \E i \in 1..Len(track) : track[i].key = k

\* Python: str(track.get(k, default))
GetStr(track, k, default) ==
    IF HasKey(track, k)
    THEN track[CHOOSE i \in 1..Len(track) : track[i].key = k].val
    ELSE default

\* next((t for t in tracks if t.get("@type") == "Video"), None): the index of
\* the first video track, 0 when there is none.
VideoTrackIndex(tracks) ==
    LET vids == {i \in 1..Len(tracks) :
                    /\ HasKey(tracks[i], "@type")
                    /\ GetStr(tracks[i], "@type", "") = "Video"}
    IN IF vids = {} THEN 0 ELSE CHOOSE i \in vids : \A j \in vids : i <= j

\* The transfer-function hint one upper-cased field value gives.
TransferHint(val) ==
    IF Contains(val, "ARIB") /\ Contains(val, "B67") THEN HLG
    ELSE IF Contains(val, "HLG") THEN HLG
    ELSE IF Contains(val, "SMPTE") /\ Contains(val, "2084") THEN HDR10_UNSUPPORTED
    ELSE None

infer_hdr_from_mi_json(video_track) ==
    LET hdr_fmt == Upper(GetStr(video_track, "HDR_Format", ""))
        hdr_compat == Upper(GetStr(video_track, "HDR_Format_Compatibility", ""))
        combined == hdr_fmt \o " " \o hdr_compat
        hinting == {i \in 1..Len(video_track) :
                       /\ video_track[i].isstr
                       /\ TransferHint(Upper(video_track[i].val)) # None}
        first == CHOOSE i \in hinting : \A j \in hinting : i <= j
    IN IF \/ Contains(combined, "2094")
          \/ Contains(combined, "HDR10+")
          \/ Contains(combined, "HDR10 PLUS") THEN HDR10_PLUS
       ELSE IF Contains(combined, "HLG") THEN HLG
       ELSE IF Contains(combined, "HDR10") THEN HDR10_UNSUPPORTED
       ELSE IF hinting # {} THEN TransferHint(Upper(video_track[first].val))
       ELSE None

\* ffprobe absent from PATH or exiting non-zero gives None, and so does an
\* output that is empty once stripped.
ffprobe_color_transfer(ffprobe) ==
    IF ffprobe.kind = "missing" THEN None
    ELSE IF ffprobe.kind = "nonzero" THEN None
    ELSE IF Strip(ffprobe.out) = "" THEN None
    ELSE Strip(ffprobe.out)

\* ClassifyFormatInfo with the HLG test moved in front of the HDR10+ test.
ClassifyFormatInfo_HlgFirst(format_info, meas_file) ==
    IF Contains(format_info, "HLG") THEN HLG
    ELSE IF Contains(format_info, "SMPTE ST 2094 App 4") \/ Contains(format_info, "HDR10+")
    THEN HDR10_PLUS
    ELSE IF \/ Contains(format_info, "HDR10")
            \/ Contains(format_info, "PQ")
            \/ Contains(format_info, "ST 2084")
    THEN IF meas_file # None THEN HDR10_WITH_MEASUREMENTS ELSE HDR10_UNSUPPORTED
    ELSE None

\* The primary, string-based detection on the stripped probe string.
ClassifyFormatInfo(format_info, meas_file) ==
    IF Contains(format_info, "SMPTE ST 2094 App 4") \/ Contains(format_info, "HDR10+")
    THEN HDR10_PLUS
    ELSE IF Contains(format_info, "HLG") THEN HLG
    ELSE IF \/ Contains(format_info, "HDR10")
            \/ Contains(format_info, "PQ")
            \/ Contains(format_info, "ST 2084")
    THEN IF meas_file # None THEN HDR10_WITH_MEASUREMENTS ELSE HDR10_UNSUPPORTED
    ELSE None

\* Fallback: the variant inferred from the video track of the mediainfo JSON.
ClassifyVideoTrack(video_track, meas_file) ==
    LET inferred == infer_hdr_from_mi_json(video_track)
    IN IF inferred = HDR10_UNSUPPORTED /\ meas_file # None
       THEN HDR10_WITH_MEASUREMENTS
       ELSE inferred

\* ClassifyColorTransfer without the upgrade by an existing measurements file.
ClassifyColorTransfer_NoUpgrade(color_trc, meas_file) ==
    LET trc == Lower(Strip(color_trc))
    IN IF color_trc = None THEN None
       ELSE IF Contains(trc, "arib-std-b67") \/ Contains(trc, "hlg") THEN HLG
       ELSE IF Contains(trc, "smpte2084") \/ Contains(trc, "pq") THEN HDR10_UNSUPPORTED
       ELSE None

\* Fallback 2: the variant the ffprobe color_transfer indicates.
ClassifyColorTransfer(color_trc, meas_file) ==
    LET trc == Lower(Strip(color_trc))
    IN IF color_trc = None THEN None
       ELSE IF Contains(trc, "arib-std-b67") \/ Contains(trc, "hlg") THEN HLG
       ELSE IF Contains(trc, "smpte2084") \/ Contains(trc, "pq")
       THEN IF meas_file # None THEN HDR10_WITH_MEASUREMENTS
            ELSE HDR10_UNSUPPORTED
       ELSE None

\* What a call does: the value it returns or the exception that leaves it, and
\* the probes it consulted, in order.
Returned(v, calls) == [value |-> v, raised |-> None, calls |-> calls]
Raised(e, calls) == [value |-> None, raised |-> e, calls |-> calls]

\* mi_json.get("media", {}).get("track", []) on (get_mediainfo_json_cached() or {}):
\* a failed probe (None) and a JSON without "media" give no track.
JsonTracks(json) == IF json.kind = "tracks" THEN json.tracks ELSE <<>>

\* The two fallback tiers, reached when the probe string has no marker.
FallbackTiers(p, meas_file) ==
    LET tracks == JsonTracks(p.json)
        v == VideoTrackIndex(tracks)
        t2 == IF v = 0 THEN None ELSE ClassifyVideoTrack(tracks[v], meas_file)
        t3 == ClassifyColorTransfer(ffprobe_color_transfer(p.ffprobe), meas_file)
        upto2 == <<"mediainfo_inform", "find_measurements_file", "mediainfo_json">>
    IN IF p.json.kind = "media_null"
       THEN Raised("AttributeError", upto2)   \* None.get("track", [])
       ELSE IF t2 # None THEN Returned(t2, upto2)
       ELSE IF t3 # None THEN Returned(t3, Append(upto2, "ffprobe"))
       ELSE Returned(UNSUPPORTED, Append(upto2, "ffprobe"))

check_hdr_format(input_file, dir, p) ==
    LET format_info == Strip(p.inform.out)
        meas_file == find_measurements_file(input_file, dir)
        t1 == ClassifyFormatInfo(format_info, meas_file)
    IN IF p.inform.kind = "missing"
       THEN Raised("FileNotFoundError", <<"mediainfo_inform">>)
       ELSE IF p.inform.kind = "nonzero"
       THEN Returned(UNSUPPORTED, <<"mediainfo_inform">>)  \* except CalledProcessError
       ELSE IF t1 # None
       THEN Returned(t1, <<"mediainfo_inform", "find_measurements_file">>)
       ELSE FallbackTiers(p, meas_file)

\* ------------------------------------------------------------- numbers

\* A float is kept as an integer count of 1/Scale (four decimals, the precision
\* generate_extra_json keeps of min_dml); the strings of the model have at most
\* four decimals. An absent number (Python None) is NoNumber, and ValueError is
\* the result of a float() that raises.
Scale == 10000
NoNumber == -1
ValueError == -2

DigitChars == <<"0","1","2","3","4","5","6","7","8","9">>
Digits == {DigitChars[i] : i \in 1..10}
DigitVal(c) == (CHOOSE i \in 1..10 : DigitChars[i] = c) - 1

RECURSIVE DigitsToInt(_)
DigitsToInt(str) ==
    IF Len(str) = 0 THEN 0
    ELSE 10 * DigitsToInt(SubSeq(str, 1, Len(str) - 1)) + DigitVal(SubSeq(str, Len(str), Len(str)))

\* The value of <whole>.<frac> in units of 1/Scale.
Decimal(whole, frac) ==
    DigitsToInt(whole) * Scale + DigitsToInt(SubSeq(frac \o "0000", 1, 4))

\* Python: int(x) of a non-negative float
IntOf(x) == x \div Scale

\* Python 3: round(x), half to even, of a non-negative float
RoundOf(x) ==
    LET whole == x \div Scale
        rest == x % Scale
    IN IF 2 * rest > Scale THEN whole + 1
       ELSE IF 2 * rest < Scale THEN whole
       ELSE IF whole % 2 = 0 THEN whole ELSE whole + 1

\* The last index of the run of characters of chars that starts at i (i - 1 when
\* the character at i is not one of them): a greedy [chars]* match.
RECURSIVE RunEnd(_, _, _)
RunEnd(str, i, chars) ==
    IF i <= Len(str) /\ SubSeq(str, i, i) \in chars THEN RunEnd(str, i + 1, chars) ELSE i - 1

\* re.search(prefix + "([chars]+)", str): group 1 of the leftmost match, or None.
SearchRun(str, prefix, chars) ==
    LET n == Len(prefix)
        starts == {i \in 1..Len(str) :
                      /\ i + n <= Len(str)
                      /\ SubSeq(str, i, i + n - 1) = prefix
                      /\ SubSeq(str, i + n, i + n) \in chars}
        i0 == CHOOSE i \in starts : \A j \in starts : i <= j
    IN IF starts = {} THEN None ELSE SubSeq(str, i0 + n, RunEnd(str, i0 + n, chars))

\* Python: float(run) for a run of digits and dots: a number with at most one
\* dot and at least one digit, anything else raises ValueError.
PyFloat(run) ==
    LET dots == {i \in 1..Len(run) : SubSeq(run, i, i) = "."}
        d == CHOOSE i \in dots : TRUE
    IN IF Cardinality(dots) > 1 \/ Cardinality(dots) = Len(run) THEN ValueError
       ELSE IF dots = {} THEN Decimal(run, "")
       ELSE Decimal(SubSeq(run, 1, d - 1), SubSeq(run, d + 1, Len(run)))

\* _extract_number: the first <digits>[.,]?<digits> of the string, with a comma
\* read as the decimal point; None when the string has no digit.
extract_number(value_str) ==
    LET starts == {i \in 1..Len(value_str) : SubSeq(value_str, i, i) \in Digits}
        i0 == CHOOSE i \in starts : \A j \in starts : i <= j
        e1 == RunEnd(value_str, i0, Digits)
        sep == e1 + 1 <= Len(value_str) /\ SubSeq(value_str, e1 + 1, e1 + 1) \in {".", ","}
        e2 == RunEnd(value_str, e1 + 2, Digits)
    IN IF starts = {} THEN NoNumber
       ELSE IF sep THEN Decimal(SubSeq(value_str, i0, e1), SubSeq(value_str, e1 + 2, e2))
       ELSE Decimal(SubSeq(value_str, i0, e1), "")

\* ----------------------------------------------------- find_details_file

find_details_file(input_file, dir) ==
    LET base_no_ext == SplitExtRoot(input_file)
        candidates == << base_no_ext \o "_mkv_Details.txt", base_no_ext \o "_Details.txt" >>
        hits == {i \in 1..Len(candidates) : candidates[i] \in dir}
        first == CHOOSE i \in hits : \A j \in hits : i <= j
        m1 == UniqueMatch(PatternMatches(dir, input_file, "_mkv_Details.txt"))
    IN IF hits # {} THEN candidates[first]
       ELSE IF m1 # None THEN m1
       ELSE None

\* ------------------------------------------------------- Details.txt text

\* A Details.txt is its lines, each line given by the pattern of the parsers it
\* matches and the text its groups capture:
\*   clip_header  ^Calculated values after clipping
\*   lum          Mastering display luminance: <a> / <b>
\*   cll100       MaxCLL 100%: <a>
\*   cll          ^MaxCLL: <a>$
\*   fall         ^MaxFALL: <a>
\*   peak         Real display peak nits: <a>
\*   max_target   Maximum Target Nits: <a>
\*   other        any other line
\* A file that cannot be opened or decoded has readable = FALSE.
Line(k, a, b) == [kind |-> k, a |-> a, b |-> b]
Text(lines) == [readable |-> TRUE, lines |-> lines]
Unreadable == [readable |-> FALSE, lines |-> <<>>]

\* ------------------------------------ parse_madvr_details_static_values

ScanStart ==
    [in_after_clipping |-> FALSE, max_cll_after |-> NoNumber, max_cll_100 |-> NoNumber,
     max_fall |-> NoNumber, min_dml |-> NoNumber, max_dml |-> NoNumber]

\* One turn of the loop over the lines.
ScanLine(acc, line) ==
    LET num == extract_number(line.a)
        num_b == extract_number(line.b)
    IN IF line.kind = "clip_header" THEN [acc EXCEPT !.in_after_clipping = TRUE]
       ELSE IF line.kind = "lum"
       THEN [acc EXCEPT !.min_dml = IF num # NoNumber THEN num ELSE @,
                        !.max_dml = IF num_b # NoNumber THEN num_b ELSE @]
       ELSE IF line.kind = "cll100" /\ acc.max_cll_100 = NoNumber
       THEN [acc EXCEPT !.max_cll_100 = IF num # NoNumber THEN IntOf(num) ELSE @]
       ELSE IF line.kind = "cll" /\ acc.in_after_clipping
       THEN [acc EXCEPT !.max_cll_after = IF num # NoNumber THEN IntOf(num) ELSE @]
       ELSE IF line.kind = "fall" /\ acc.max_fall = NoNumber
       THEN [acc EXCEPT !.max_fall = IF num # NoNumber THEN IntOf(num) ELSE @]
       ELSE acc

RECURSIVE ScanLines(_, _)
ScanLines(acc, lines) ==
    IF Len(lines) = 0 THEN acc ELSE ScanLines(ScanLine(acc, Head(lines)), Tail(lines))

\* The result dict, a function on the keys that were parsed; min_dml is a float
\* (in 1/Scale), the others are ints.
parse_madvr_details_static_values(text) ==
    LET acc == ScanLines(ScanStart, text.lines)
        keys == {k \in {"min_dml", "max_dml", "max_fall"} : acc[k] # NoNumber}
                    \cup (IF acc.max_cll_after # NoNumber \/ acc.max_cll_100 # NoNumber
                          THEN {"max_cll"} ELSE {})
    IN IF ~text.readable THEN [k \in {} |-> 0]
       ELSE [k \in keys |->
                IF k = "min_dml" THEN acc.min_dml
                ELSE IF k = "max_dml" THEN IntOf(acc.max_dml)
                ELSE IF k = "max_fall" THEN acc.max_fall
                ELSE IF acc.max_cll_after # NoNumber THEN acc.max_cll_after
                ELSE acc.max_cll_100]

\* ---------------------------------------- parse_madvr_details_for_trims

\* re.search(...) over the whole text: the group of the first line of the kind.
FirstCapture(lines, kind) ==
    LET hits == {i \in 1..Len(lines) : lines[i].kind = kind}
    IN IF hits = {} THEN None ELSE lines[CHOOSE i \in hits : \A j \in hits : i <= j].a

\* if v is not None and v > 0: x = int(round(v)); NoNumber when x stays None.
PositiveRounded(capture) ==
    LET v == extract_number(capture)
    IN IF capture = None THEN NoNumber
       ELSE IF v # NoNumber /\ v > 0 THEN RoundOf(v)
       ELSE NoNumber

RECURSIVE SortedSeq(_)
\* Python: sorted(set)
SortedSeq(set) ==
    IF set = {} THEN <<>>
    ELSE LET least == CHOOSE x \in set : \A y \in set : x <= y
         IN <<least>> \o SortedSeq(set \ {least})

MinTrimNits == 80
MaxTrimNits == 10000

\* parse_madvr_details_for_trims without the filter to [80, 10000].
parse_madvr_details_for_trims_NoRange(text) ==
    LET real_display_peak == PositiveRounded(FirstCapture(text.lines, "peak"))
        max_target_nits == PositiveRounded(FirstCapture(text.lines, "max_target"))
        appended == {100} \cup {x \in {real_display_peak, max_target_nits} :
                                    x # NoNumber /\ x # 0}
        targets == SortedSeq(appended)
    IN IF ~text.readable THEN <<>>
       ELSE IF Len(targets) >= 2 THEN targets
       ELSE <<>>

\* The list of targets, or <<>> for None (a returned list has two elements at
\* least).
parse_madvr_details_for_trims(text) ==
    LET real_display_peak == PositiveRounded(FirstCapture(text.lines, "peak"))
        max_target_nits == PositiveRounded(FirstCapture(text.lines, "max_target"))
        \* if x: append, so None and 0 are both left out
        appended == {100} \cup {x \in {real_display_peak, max_target_nits} :
                                    x # NoNumber /\ x # 0}
        targets == SortedSeq({t \in appended : MinTrimNits <= t /\ t <= MaxTrimNits})
    IN IF ~text.readable THEN <<>>
       ELSE IF Len(targets) >= 2 THEN targets
       ELSE <<>>

\* --------------------------------------------------- get_static_metadata

MetadataKeys == {"max_dml", "min_dml", "max_cll", "max_fall"}

\* defaults; min_dml 0.0050 is 50/Scale.
defaults == [max_dml |-> 1000, min_dml |-> 50, max_cll |-> 1000, max_fall |-> 400]

NumberChars == Digits \cup {"."}

\* The floats read from the video track (lines 199-211): NoNumber for a field
\* that is not set, ValueError where float() raises.
VideoTrackFloats(video_track) ==
    LET mdl == GetStr(video_track, "MasteringDisplay_Luminance", "")
        max_dml_match == SearchRun(mdl, "max: ", NumberChars)
        min_dml_match == SearchRun(mdl, "min: ", NumberChars)
        max_cll_match == SearchRun(GetStr(video_track, "MaxCLL", "0"), "", NumberChars)
        max_fall_match == SearchRun(GetStr(video_track, "MaxFALL", "0"), "", NumberChars)
    IN [max_dml |-> IF max_dml_match = None THEN NoNumber ELSE PyFloat(max_dml_match),
        min_dml |-> IF min_dml_match = None THEN NoNumber ELSE PyFloat(min_dml_match),
        max_cll |-> IF max_cll_match = None THEN 0 ELSE PyFloat(max_cll_match),
        max_fall |-> IF max_fall_match = None THEN 0 ELSE PyFloat(max_fall_match)]

\* DictUpdate with the arguments the other way round: the first dict wins.
DictUpdate_FirstWins(d1, d2) ==
    [k \in DOMAIN d1 \cup DOMAIN d2 |-> IF k \in DOMAIN d1 THEN d1[k] ELSE d2[k]]

\* Python: d1.update(d2)
DictUpdate(d1, d2) ==
    [k \in DOMAIN d1 \cup DOMAIN d2 |-> IF k \in DOMAIN d2 THEN d2[k] ELSE d1[k]]

\* FillDefaults, had only a missing key taken the default.
FillDefaults_MissingOnly(metadata) ==
    [k \in MetadataKeys |-> IF k \in DOMAIN metadata THEN metadata[k] ELSE defaults[k]]

\* final_metadata: the default, replaced where metadata.get(key) is truthy
\* (present and not 0).
FillDefaults(metadata) ==
    [k \in MetadataKeys |->
        IF k \in DOMAIN metadata /\ metadata[k] # 0 THEN metadata[k] ELSE defaults[k]]

\* What the call returns: the record (value), or the exception that leaves it;
\* mediainfo and details are the dicts the two sources gave.
StaticMetadata(v, e, m, d) == [value |-> v, raised |-> e, mediainfo |-> m, details |-> d]
EmptyDict == [k \in {} |-> 0]

get_static_metadata(input_file, dir, p, text) ==
    LET tracks == JsonTracks(p.json)
        v == VideoTrackIndex(tracks)
        floats == VideoTrackFloats(tracks[v])
        from_mi == IF v = 0 THEN EmptyDict
                   ELSE [k \in {j \in MetadataKeys : floats[j] # NoNumber} |->
                            IF k = "min_dml" THEN floats[k] ELSE IntOf(floats[k])]
        details_path == find_details_file(input_file, dir)
        details_values == IF details_path = None THEN EmptyDict
                          ELSE parse_madvr_details_static_values(text)
    IN IF p.json.kind = "media_null"
       THEN StaticMetadata(EmptyDict, "AttributeError", EmptyDict, EmptyDict)
       ELSE IF v # 0 /\ \E k \in MetadataKeys : floats[k] = ValueError
       THEN StaticMetadata(EmptyDict, "ValueError", EmptyDict, EmptyDict)
       ELSE StaticMetadata(FillDefaults(DictUpdate(from_mi, details_values)), None,
                           from_mi, details_values)

\* ------------------------------------------------ validate_static_metadata

\* Python: d.get(key, default)
DictGet(d, key, default) == IF key \in DOMAIN d THEN d[key] ELSE default

\* validate_static_metadata, had it returned False for a warning too.
Passes_NoFindings(issues, warnings) == issues = {} /\ warnings = {}

\* if issues: ... return False; the warnings are printed and True is returned.
Passes(issues, warnings) == issues = {}

\* The two lists of findings, what is printed of them (the warnings only when
\* there is no error) and the value returned ("True" or "False"). min_dml is a count of 1/Scale,
\* so 0.05 is (5 * Scale) \div 100.
validate_static_metadata(metadata) ==
    LET max_dml == DictGet(metadata, "max_dml", 0)
        min_dml == DictGet(metadata, "min_dml", 0)
        max_cll == DictGet(metadata, "max_cll", 0)
        max_fall == DictGet(metadata, "max_fall", 0)
        issues ==
            (IF ~(max_dml < 100) /\ max_dml > 10000 THEN {"MaxDML exceeds range"} ELSE {})
            \cup (IF ~(min_dml > (5 * Scale) \div 100) /\ min_dml <= 0
                  THEN {"MinDML must be positive"} ELSE {})
            \cup (IF max_cll <= 0 THEN {"MaxCLL must be positive"} ELSE {})
            \cup (IF max_fall <= 0 THEN {"MaxFALL must be positive"} ELSE {})
        warnings ==
            (IF max_dml < 100 THEN {"MaxDML unusually low"} ELSE {})
            \cup (IF min_dml > (5 * Scale) \div 100 THEN {"MinDML unusually high"} ELSE {})
            \cup (IF ~(max_cll <= 0) /\ max_cll > 10000
                  THEN {"MaxCLL exceeds range"} ELSE {})
            \cup (IF ~(max_fall <= 0) /\ max_fall > 10000
                  THEN {"MaxFALL exceeds range"} ELSE {})
            \cup (IF max_cll > 0 /\ max_fall > 0 /\ max_cll < max_fall
                  THEN {"MaxCLL < MaxFALL"} ELSE {})
    IN [ok |-> IF Passes(issues, warnings) THEN "True" ELSE "False",
        issues |-> issues, warnings |-> warnings,
        printed |-> IF issues # {} THEN issues ELSE warnings]

\* ------------------------------------------------- inputs of the classifier

InputFile == "movie.mkv"

\* Names a measurements file next to movie.mkv can have: the exact historical
\* names, stem-prefixed names that only the glob patterns match, and one name
\* that belongs to another input.
MeasurementNames ==
    { "measurements.bin", "movie.mkv.measurements", "movie.measurements",
      "movie_measurements.bin", "movie2.measurements", "movie.en.measurements",
      "movie2_measurements.bin", "other.measurements" }

MaxDirFiles == 3

Directories == {d \in SUBSET MeasurementNames : Cardinality(d) <= MaxDirFiles}

\* The marker tokens mediainfo's HDR_Format/HDR_Format_Compatibility line is
\* made of.
InformTokens ==
    { "SMPTE ST 2094 App 4", "HDR10+", "HLG", "HDR10", "PQ", "ST 2084", "SMPTE ST 2086" }

MaxMarkers == 2

RECURSIVE JoinTokens(_)
JoinTokens(seq) ==
    IF Len(seq) = 0 THEN ""
    ELSE IF Len(seq) = 1 THEN seq[1]
    ELSE seq[1] \o " / " \o JoinTokens(Tail(seq))

InformStrings ==
    { JoinTokens(seq) \o "\n" :
        seq \in UNION {[1..n -> InformTokens] : n \in 0..MaxMarkers} }

Outcome(k, o) == [kind |-> k, out |-> o]

InformOutcomes ==
    {Outcome("missing", ""), Outcome("nonzero", "")}
        \cup {Outcome("ok", str) : str \in InformStrings}

VideoTrack(fields) == <<Field("@type", "Video")>> \o fields
GeneralTrack == <<Field("@type", "General"), Field("Format", "Matroska")>>

JsonTrackLists ==
    { <<GeneralTrack>>,
      <<GeneralTrack, VideoTrack(<<Field("Format", "HEVC")>>)>>,
      <<GeneralTrack, VideoTrack(<<Field("HDR_Format", "SMPTE ST 2094 App 4"),
                                   Field("HDR_Format_Compatibility", "HDR10+ Profile B / HDR10")>>)>>,
      <<GeneralTrack, VideoTrack(<<Field("HDR_Format", "smpte st 2086"),
                                   Field("HDR_Format_Compatibility", "hdr10")>>)>>,
      <<GeneralTrack, VideoTrack(<<Field("transfer_characteristics", "PQ")>>)>>,
      <<GeneralTrack, VideoTrack(<<Field("transfer_characteristics", "HLG")>>)>>,
      <<GeneralTrack, VideoTrack(<<Field("transfer_characteristics", "SMPTE ST 2084")>>)>>,
      <<GeneralTrack, VideoTrack(<<Field("transfer_characteristics", "SMPTE ST 2084"),
                                   Field("transfer_characteristics_Original", "ARIB STD-B67")>>)>>,
      <<GeneralTrack, VideoTrack(<<NonStrField("extra", "{'transfer': 'HLG'}")>>)>> }

JsonOutcomes ==
    { [kind |-> "fail", tracks |-> <<>>],
      [kind |-> "no_media", tracks |-> <<>>],
      [kind |-> "media_null", tracks |-> <<>>] }
        \cup {[kind |-> "tracks", tracks |-> t] : t \in JsonTrackLists}

FfprobeOutcomes ==
    { Outcome("missing", ""), Outcome("nonzero", ""), Outcome("ok", "\n"),
      Outcome("ok", "bt709\n"), Outcome("ok", "smpte2084\n"),
      Outcome("ok", "arib-std-b67\n") }

\* The directories the classifier is run in: no measurements file, one, and two
\* stem-prefixed ones.
ClassifierDirectories ==
    { {}, {"movie.measurements"}, {"movie2.measurements", "movie.en.measurements"} }

Probes == [inform : InformOutcomes, json : JsonOutcomes, ffprobe : FfprobeOutcomes]

NoProbe ==
    [inform |-> Outcome("missing", ""), json |-> [kind |-> "fail", tracks |-> <<>>],
     ffprobe |-> Outcome("missing", "")]

NotCalled == [value |-> Pending, raised |-> None, calls |-> <<>>]
NoMetadata == StaticMetadata(EmptyDict, Pending, EmptyDict, EmptyDict)
NotDerived == <<NoNumber>>

\* Nothing of metadata.py has been called.
NothingCalled ==
    /\ found = Pending
    /\ mi_lookups = <<>>
    /\ hdr_checked = NotCalled
    /\ static_meta = NoMetadata
    /\ trims = NotDerived

\* ----------------------------------------------------------- convert_file

\* f"{os.path.splitext(input_file)[0]}.DV.mkv"
OutputPath(input_file) == SplitExtRoot(input_file) \o ".DV.mkv"

OutputFile == OutputPath(InputFile)

\* Python: s.split(",")
RECURSIVE SplitComma(_)
SplitComma(str) ==
    LET commas == {i \in 1..Len(str) : SubSeq(str, i, i) = ","}
        c == CHOOSE i \in commas : \A j \in commas : i <= j
    IN IF commas = {} THEN <<str>>
       ELSE <<SubSeq(str, 1, c - 1)>> \o SplitComma(SubSeq(str, c + 1, Len(str)))

\* Python: int(t.strip()) accepts an optional sign followed by digits and
\* raises ValueError on anything else.
IntSigned(t) == Len(t) > 0 /\ SubSeq(t, 1, 1) \in {"+", "-"}

IntDigits(t) == IF IntSigned(t) THEN SubSeq(t, 2, Len(t)) ELSE t

PyIntRaises(token) ==
    LET digits == IntDigits(Strip(token))
    IN Len(digits) = 0 \/ \E i \in 1..Len(digits) : SubSeq(digits, i, i) \notin Digits

PyInt(token) ==
    LET t == Strip(token)
    IN IF IntSigned(t) /\ SubSeq(t, 1, 1) = "-" THEN 0 - DigitsToInt(IntDigits(t))
       ELSE DigitsToInt(IntDigits(t))

\* cli.main, lines 137-143: [int(t.strip()) for t in args.trim_targets.split(",")],
\* in the order and with the repetitions of the option; a ValueError ends the
\* process before any file is taken.
parse_trim_targets(str) ==
    LET tokens == SplitComma(str)
        bad == \E i \in 1..Len(tokens) : PyIntRaises(tokens[i])
    IN [raised |-> IF bad THEN "ValueError" ELSE None,
        value |-> IF bad THEN <<>> ELSE [i \in 1..Len(tokens) |-> PyInt(tokens[i])]]

\* The default of --trim-targets, "100,600,1000", as main converts it.
DefaultTrimTargets == parse_trim_targets("100,600,1000").value

\* Values of --trim-targets other than the default, the first with the
\* derivation from Details.txt left on, the others with --no-trim-from-details.
UserTrimTargets ==
    { [option |-> "1000, 100,100", trim_from_details |-> TRUE],
      [option |-> "50,20000", trim_from_details |-> FALSE],
      [option |-> "100,6oo", trim_from_details |-> FALSE] }

\* The Namespace cli.main builds; keep_source is read with getattr(...) and no
\* option of the parser sets it, so a caller other than main may.
\* Every combination of the flags with the default targets, and the user's
\* targets that main accepts.
Arguments ==
    [verify : BOOLEAN, keep_source : BOOLEAN, boost_experimental : BOOLEAN,
     trim_from_details : BOOLEAN,
     trim_targets : {DefaultTrimTargets},
     peak_source : {"histogram99"}, hlg_peak_nits : {1000}]
    \cup
    { [verify |-> FALSE, keep_source |-> FALSE, boost_experimental |-> FALSE,
       trim_from_details |-> u.trim_from_details,
       trim_targets |-> parse_trim_targets(u.option).value,
       peak_source |-> "histogram99", hlg_peak_nits |-> 1000] :
        u \in {t \in UserTrimTargets : parse_trim_targets(t.option).raised = None} }

NoArguments ==
    [verify |-> FALSE, keep_source |-> FALSE, boost_experimental |-> FALSE,
     trim_from_details |-> FALSE, trim_targets |-> <<>>, peak_source |-> "",
     hlg_peak_nits |-> 0]

NoRpuCall == [hdr_type |-> None, metadata_file |-> None, measurements_file |-> None]

\* The locals of convert_file before line 257.
FreshLocals ==
    /\ hdr_type = None
    /\ measurements_file = None
    /\ hdr10plus_json = None
    /\ bl_source_file = None
    /\ trim_targets = <<>>
    /\ rpu_call = NoRpuCall
    /\ reclassified = FALSE

NoValidation == [ok |-> Pending, issues |-> {}, warnings |-> {}, printed |-> {}]
NoExtraJson == [target_nits |-> <<>>, level6 |-> EmptyDict]

\* No step of convert_file has run.
NoTrace ==
    /\ steps = <<>>
    /\ analyzer_calls = <<>>
    /\ validated = NoValidation
    /\ extra_json = NoExtraJson

NoVerifyCall == [measurements_file |-> None]
NotVerified ==
    [ok |-> Pending, raised |-> None, calls |-> <<>>, cache |-> EmptyDict, checks |-> <<>>,
     reports |-> {}, warnings |-> {}]

\* verify_post_mux has not been called.
NoVerification ==
    /\ verify_call = NoVerifyCall
    /\ other_call = NoVerifyCall
    /\ other_verified = NotVerified
    /\ verified = NotVerified

\* cli.main before its loop.
MainNotStarted ==
    /\ file_index = 0
    /\ file_temp_dirs = <<>>
    /\ had_failure = FALSE
    /\ exit_code = Pending

\* convert_file has not been called.
NotConverting ==
    /\ pc = "idle"
    /\ args = NoArguments
    /\ FreshLocals
    /\ invoked = <<>>
    /\ result = Pending
    /\ MI_JSON_CACHE = EmptyDict
    /\ entry_dir = {}
    /\ results = <<>>
    /\ NoTrace
    /\ NoVerification
    /\ MainNotStarted

\* Neither convert_file nor the loop of main has been entered.
NoConversion == NotConverting /\ files_to_process = <<>>

\* The working directory of the process.
Cwd == "/work"

\* Python: os.path.abspath(path), for absolute paths and for paths relative to
\* the working directory with or without a leading "./".
abspath(path) ==
    IF StartsWith(path, "/") THEN path
    ELSE IF StartsWith(path, "./") THEN Cwd \o "/" \o SubSeq(path, 3, Len(path))
    ELSE Cwd \o "/" \o path

\* get_mediainfo_json_cached, had it probed the file again on every call.
CachedLookup_Refresh(path, json, cache) ==
    [json |-> json,
     calls |-> <<"mediainfo --Output=JSON">>,
     cache |-> IF json.kind = "fail" THEN cache ELSE (abspath(path) :> json) @@ cache]

\* get_mediainfo_json_cached for a path for which mediainfo prints json
\* (kind "fail": the process or json.loads raises): an entry of the cache is
\* returned as it is; without one mediainfo runs, and what it printed is
\* stored and returned, nothing being stored when it failed.
CachedLookup(path, json, cache) ==
    IF abspath(path) \in DOMAIN cache
    THEN [json |-> cache[abspath(path)], calls |-> <<>>, cache |-> cache]
    ELSE [json |-> json,
          calls |-> <<"mediainfo --Output=JSON">>,
          cache |-> IF json.kind = "fail" THEN cache ELSE (abspath(path) :> json) @@ cache]

\* The mediainfo JSON of a path: the input's is the probe's; the files the run
\* itself writes (the re-encoded PQ file, the output) have a video track.
WrittenFileJson ==
    [kind |-> "tracks",
     tracks |-> <<GeneralTrack, VideoTrack(<<Field("Duration", "60000")>>)>>]
JsonOf(path) == IF abspath(path) = abspath(InputFile) THEN probe.json ELSE WrittenFileJson

\* get_mediainfo_json_cached(path): an entry is returned as it is; without one
\* mediainfo is invoked and its parsed output stored, a failed probe stores
\* nothing.
get_mediainfo_json_cached(path, cache) == CachedLookup(path, JsonOf(path), cache)

\* get_duration_from_mediainfo(path) as far as the workflow depends on it: the
\* JSON lookup, and the AttributeError of None.get(...) for "media": null.
get_duration_from_mediainfo(path, cache) ==
    LET mi == get_mediainfo_json_cached(path, cache)
    IN [raised |-> IF mi.json.kind = "media_null" THEN "AttributeError" ELSE None,
        calls |-> mi.calls, cache |-> mi.cache]

\* The external tools a check_hdr_format call invoked: the JSON probe only
\* without a cache entry, ffprobe only when shutil.which finds it.
ProbeInvocations(calls, cache) ==
    LET name(c) ==
            IF c = "mediainfo_inform" THEN <<"mediainfo --Inform">>
            ELSE IF c = "mediainfo_json" /\ abspath(InputFile) \notin DOMAIN cache
            THEN <<"mediainfo --Output=JSON">>
            ELSE IF c = "ffprobe" /\ probe.ffprobe.kind # "missing" THEN <<"ffprobe">>
            ELSE <<>>
        F[i \in 0..Len(calls)] == IF i = 0 THEN <<>> ELSE F[i - 1] \o name(calls[i])
    IN F[Len(calls)]

HasCall(calls, c) == \E i \in 1..Len(calls) : calls[i] = c

\* extract_hdr10plus_metadata, given what its two tools did: the path of the
\* JSON, "NO_DYNAMIC_METADATA", or None.
Hdr10PlusOutcomes ==
    [ffmpeg_ok : BOOLEAN, tool_ok : BOOLEAN, json_written : BOOLEAN,
     log_no_dynamic : BOOLEAN]

extract_hdr10plus_metadata(o) ==
    IF ~o.ffmpeg_ok THEN None
    ELSE IF o.tool_ok /\ o.json_written THEN "hdr10plus_metadata.json"
    ELSE IF o.log_no_dynamic THEN "NO_DYNAMIC_METADATA"
    ELSE None

\* run_hdr_analyzer, given whether the executable is found, how it exits and
\* whether it wrote <stem>_measurements.bin: the path, or None.
AnalyzerOutcomes == [exe_found : BOOLEAN, run_ok : BOOLEAN, written : BOOLEAN]

AnalyzerOutput(source_file) == SplitExtRoot(source_file) \o "_measurements.bin"

\* cmd.extend(["--downscale", "2", "--sample-rate", "3"]), fast_mode being True
\* in every call of convert_file.
FastModeArgs == <<"--downscale", "2", "--sample-rate", "3">>

\* _build_analyzer_boost_args
build_analyzer_boost_args == <<"--optimizer-profile", "aggressive">>

\* The command line run_hdr_analyzer runs.
AnalyzerCommand(source_file, extra_args) ==
    <<"hdr_analyzer_mvp", source_file, "-o", AnalyzerOutput(source_file)>>
        \o FastModeArgs \o extra_args

\* A call of run_hdr_analyzer: its arguments, and the command it runs (<<>>
\* when no executable is found and the function returns None before running
\* one).
AnalyzerCall(source_file, extra_args, o) ==
    [source_file |-> source_file, extra_args |-> extra_args,
     cmd |-> IF o.exe_found THEN AnalyzerCommand(source_file, extra_args) ELSE <<>>]

\* The extra arguments of the HDR10 branch, had the boost been passed always.
Hdr10ExtraArgs_AlwaysBoost(a) == build_analyzer_boost_args

\* Lines 285-287: extra_args of the HDR10 branch (None is the empty list).
Hdr10ExtraArgs(a) == IF a.boost_experimental THEN build_analyzer_boost_args ELSE <<>>

\* Lines 296-298: analyzer_extra of the HLG branch.
HlgExtraArgs(a) ==
    <<"--hlg-peak-nits", ToString(a.hlg_peak_nits)>>
        \o (IF a.boost_experimental THEN build_analyzer_boost_args ELSE <<>>)

\* The analyzer, had it been run for a file classified HDR10_WITH_MEASUREMENTS
\* too.
SynthesisAllowed_Always(type) == TRUE

\* Lines 281-284: without a measurements file the analyzer is run, unless the
\* classifier had said that there is one.
SynthesisAllowed(type) == type # HDR10_WITH_MEASUREMENTS

\* The base layer source of an HLG file, had it stayed the input.
HlgBaseLayerSource_Original(input_file, pq_path) == input_file

\* Line 312: bl_source_file = pq_path
HlgBaseLayerSource(input_file, pq_path) == pq_path

\* getattr(args, "verify", False), had the verification been run always.
verify_requested_Always(a) == TRUE

\* getattr(args, "verify", False)
verify_requested(a) == a.verify

run_hdr_analyzer(source_file, dir, o) ==
    IF ~o.exe_found THEN None
    ELSE IF o.run_ok /\ (o.written \/ AnalyzerOutput(source_file) \in dir)
    THEN AnalyzerOutput(source_file)
    ELSE None

\* generate_rpu: which input dovi_tool generate is run on, "" when the function
\* returns None before running it.
generate_rpu_input(type, metadata_file, meas_file) ==
    IF type = HDR10_PLUS
    THEN IF metadata_file = None THEN "" ELSE "--hdr10plus-json"
    ELSE IF type = HDR10_WITH_MEASUREMENTS
    THEN IF meas_file = None THEN "" ELSE "--madvr-file"
    ELSE ""

\* The runs of convert_file that are followed: cli.main over the same input.
MaxRuns == 2

\* return <r> / raise <r>: the call is over. A returned False is noted by
\* cli.main (if not ok: had_failure = True); an exception is not caught there.
Return(r) ==
    /\ pc' = IF r \in {"True", "False"} THEN "returned" ELSE "raised"
    /\ result' = r
    /\ results' = Append(results, r)
    /\ had_failure' = (had_failure \/ r = "False")
    /\ UNCHANGED <<file_index, exit_code>>

Goto(p) ==
    /\ pc' = p
    /\ UNCHANGED <<result, results, mainVars>>

\* A step of convert_file has run: "ok" when the call goes on after it,
\* "failed" when the step gave a failing value, "raised" when an exception
\* left it.
Ran(name, outcome) == steps' = Append(steps, [name |-> name, outcome |-> outcome])

\* The loop of cli.main is between two files.
BetweenFiles == pc \in {"idle", "returned"}

\* Python: os.path.basename(path)
RECURSIVE basename(_)
basename(path) ==
    IF \E i \in 1..Len(path) : SubSeq(path, i, i) = "/"
    THEN basename(SubSeq(path, 2, Len(path)))
    ELSE path

\* [a-zA-Z0-9]
AlphaNumeric ==
    {LowerLetters[i] : i \in 1..26} \cup {UpperLetters[i] : i \in 1..26} \cup Digits

\* Python: re.sub(r"[^a-zA-Z0-9]", "_", name)
RECURSIVE Sanitized(_)
Sanitized(name) ==
    IF Len(name) = 0 THEN ""
    ELSE (IF SubSeq(name, 1, 1) \in AlphaNumeric THEN SubSeq(name, 1, 1) ELSE "_")
         \o Sanitized(SubSeq(name, 2, Len(name)))

\* int(time.time()) when main starts: one value for the whole run.
StartTime == 1700000000

\* cli.main, line 147
temp_dir == "./mkvdolby_temp_" \o ToString(StartTime)

\* cli.main, lines 169-171: os.path.join(temp_dir, <the sanitized base name>)
file_temp_dir(file_path) == temp_dir \o "/" \o Sanitized(basename(file_path))

\* The entry of files_to_process the loop takes next.
CurrentEntry == files_to_process[file_index + 1]

\* cli.main: an entry of files_to_process that is a file is handed to
\* convert_file, with a working subdirectory made for it. The batch names the
\* same input MaxRuns times.
ConvertFile ==
    /\ BetweenFiles
    /\ file_index < Len(files_to_process)
    /\ CurrentEntry = InputFile
    /\ InputFile \in directory
    /\ ~EndsWith(InputFile, ".DV.mkv")
    /\ file_index' = file_index + 1
    /\ file_temp_dirs' = Append(file_temp_dirs, [file |-> InputFile, dir |-> file_temp_dir(InputFile)])
    /\ pc' = "entry"
    /\ entry_dir' = directory
    /\ invoked' = <<>>
    /\ result' = Pending
    /\ hdr_type' = None
    /\ measurements_file' = None
    /\ hdr10plus_json' = None
    /\ bl_source_file' = None
    /\ trim_targets' = <<>>
    /\ rpu_call' = NoRpuCall
    /\ reclassified' = FALSE
    /\ hdr_checked' = NotCalled
    /\ static_meta' = NoMetadata
    /\ trims' = NotDerived
    /\ steps' = <<>>
    /\ analyzer_calls' = <<>>
    /\ validated' = NoValidation
    /\ extra_json' = NoExtraJson
    /\ verify_call' = NoVerifyCall
    /\ verified' = NotVerified
    /\ found' = Pending
    /\ UNCHANGED <<envVars, args, MI_JSON_CACHE, results, had_failure, exit_code,
                   other_call, other_verified, files_to_process, lookupVars>>

\* cli.main: an entry that is not a file is skipped with a warning.
SkipMissingInput ==
    /\ BetweenFiles
    /\ file_index < Len(files_to_process)
    /\ CurrentEntry \notin directory
    /\ file_index' = file_index + 1
    /\ UNCHANGED <<envVars, resultVars, localVars, callVars, traceVars, verifyVars,
                   had_failure, exit_code>>
    /\ UNCHANGED <<batchVars, lookupVars>>

\* cli.main after the loop: sys.exit(1) if had_failure, else the normal end.
EndOfBatch ==
    /\ BetweenFiles
    /\ file_index = Len(files_to_process)
    /\ pc' = "exited"
    /\ exit_code' = IF had_failure THEN "1" ELSE "0"
    /\ UNCHANGED <<envVars, resultVars, localVars, args, invoked, result, MI_JSON_CACHE,
                   entry_dir, results, traceVars, verifyVars, file_index, had_failure>>
    /\ UNCHANGED <<batchVars, lookupVars>>

\* An exception that leaves convert_file leaves main too: the interpreter prints
\* the traceback and ends the process with status 1.
UncaughtException ==
    /\ pc = "raised"
    /\ pc' = "exited"
    /\ exit_code' = "1"
    /\ UNCHANGED <<envVars, resultVars, localVars, args, invoked, result, MI_JSON_CACHE,
                   entry_dir, results, traceVars, verifyVars, file_index, had_failure>>
    /\ UNCHANGED <<batchVars, lookupVars>>

\* SkipExisting, had the existence of the output not ended the call.
SkipExisting_Overwrite ==
    /\ pc = "entry"
    /\ OutputFile \in directory
    /\ Goto("branch")
    /\ hdr_type' = check_hdr_format(InputFile, directory, probe).value
    /\ invoked' = Append(invoked, "mediainfo --Inform")
    /\ UNCHANGED <<envVars, resultVars, measurements_file, hdr10plus_json, bl_source_file,
                   trim_targets, rpu_call, reclassified, args, MI_JSON_CACHE, entry_dir,
                   traceVars, verifyVars>>
    /\ UNCHANGED <<batchVars, lookupVars>>

\* Lines 251-254: the output exists, the file is skipped.
SkipExisting ==
    /\ pc = "entry"
    /\ OutputFile \in directory
    /\ Return("True")
    /\ UNCHANGED <<envVars, resultVars, localVars, args, invoked, MI_JSON_CACHE, entry_dir,
                   traceVars, verifyVars>>
    /\ UNCHANGED <<batchVars, lookupVars>>

\* Lines 256-261: hdr_type = check_hdr_format(input_file)
Classify ==
    /\ pc = "entry"
    /\ OutputFile \notin directory
    /\ hdr_checked' = check_hdr_format(InputFile, directory, probe)
    /\ invoked' = invoked \o ProbeInvocations(hdr_checked'.calls, MI_JSON_CACHE)
    /\ MI_JSON_CACHE' =
          IF HasCall(hdr_checked'.calls, "mediainfo_json")
          THEN get_mediainfo_json_cached(InputFile, MI_JSON_CACHE).cache
          ELSE MI_JSON_CACHE
    /\ IF hdr_checked'.raised # None
       THEN Return(hdr_checked'.raised) /\ UNCHANGED <<hdr_type, bl_source_file>>
       ELSE /\ Goto("branch")
            /\ hdr_type' = hdr_checked'.value
            /\ bl_source_file' = InputFile
    /\ UNCHANGED <<envVars, found, static_meta, trims, measurements_file, hdr10plus_json,
                   trim_targets, rpu_call, reclassified, args, entry_dir,
                   traceVars, verifyVars>>
    /\ UNCHANGED <<batchVars, lookupVars>>

\* FallbackJson, had the marker of the extraction been left in the variable.
FallbackJson_MarkerKept == "NO_DYNAMIC_METADATA"

\* Line 267: what hdr10plus_json becomes with the fallback.
FallbackJson == None

\* FallbackVariant, had the file been taken for one that comes with measurements.
FallbackVariant_Measured == HDR10_WITH_MEASUREMENTS

\* Line 266: what hdr_type becomes when hdr10plus_tool finds no dynamic
\* metadata in a file classified as HDR10+.
FallbackVariant == HDR10_UNSUPPORTED

\* Lines 263-269: the HDR10+ metadata is extracted; a stream without any turns
\* the file into HDR10_UNSUPPORTED and the next branch takes it.
ExtractHdr10Plus ==
    /\ pc = "branch"
    /\ hdr_type = HDR10_PLUS
    /\ \E o \in Hdr10PlusOutcomes :
        LET d == get_duration_from_mediainfo(InputFile, MI_JSON_CACHE)
            extracted == extract_hdr10plus_metadata(o)
        IN /\ MI_JSON_CACHE' = d.cache
           /\ IF d.raised # None
              THEN /\ Return(d.raised)
                   /\ Ran("extract hdr10plus", "raised")
                   /\ invoked' = invoked \o d.calls
                   /\ UNCHANGED <<hdr_type, hdr10plus_json, reclassified>>
              ELSE /\ invoked' = invoked \o d.calls \o <<"ffmpeg extract">>
                                     \o (IF o.ffmpeg_ok THEN <<"hdr10plus_tool extract">>
                                         ELSE <<>>)
                   /\ IF extracted = "NO_DYNAMIC_METADATA"
                      THEN /\ hdr_type' = FallbackVariant
                           /\ hdr10plus_json' = FallbackJson
                           /\ reclassified' = TRUE
                           /\ Goto("branch")
                           /\ Ran("extract hdr10plus", "ok")
                      ELSE IF extracted = None
                      THEN /\ Return("False")
                           /\ Ran("extract hdr10plus", "failed")
                           /\ hdr10plus_json' = None
                           /\ UNCHANGED <<hdr_type, reclassified>>
                      ELSE /\ Goto("static_metadata")
                           /\ Ran("extract hdr10plus", "ok")
                           /\ hdr10plus_json' = extracted
                           /\ UNCHANGED <<hdr_type, reclassified>>
    /\ UNCHANGED <<envVars, resultVars, measurements_file, bl_source_file, trim_targets,
                   rpu_call, args, entry_dir, analyzer_calls, validated, extra_json,
                   verifyVars>>
    /\ UNCHANGED <<batchVars, lookupVars>>

\* The directory is shared with other processes: a measurements file that the
\* classifier has seen (line 257) is removed before convert_file looks for it
\* itself (line 272).
MeasurementsRemoved ==
    /\ pc = "branch"
    /\ \E f \in directory \cap MeasurementNames : directory' = directory \ {f}
    /\ UNCHANGED <<probe, details_text, resultVars, convertVars>>
    /\ UNCHANGED <<batchVars, lookupVars>>

\* Lines 271-290: an existing measurements file is used as it is; without one
\* the analyzer is run on the source, unless the classifier had seen one.
LocateMeasurements ==
    /\ pc = "branch"
    /\ hdr_type \in {HDR10_WITH_MEASUREMENTS, HDR10_UNSUPPORTED}
    /\ \E o \in AnalyzerOutcomes :
        LET existing == find_measurements_file(InputFile, directory)
            analyzed == run_hdr_analyzer(InputFile, directory, o)
        IN /\ found' = existing
           /\ IF existing # None
              THEN /\ measurements_file' = existing
                   /\ Goto("static_metadata")
                   /\ Ran("measurements", "ok")
                   /\ UNCHANGED <<directory, invoked, analyzer_calls>>
              ELSE IF ~SynthesisAllowed(hdr_type)
              THEN /\ Return("False")
                   /\ Ran("measurements", "failed")
                   /\ UNCHANGED <<directory, invoked, measurements_file, analyzer_calls>>
              ELSE /\ measurements_file' = analyzed
                   /\ invoked' = IF o.exe_found THEN Append(invoked, "hdr_analyzer_mvp")
                                 ELSE invoked
                   /\ analyzer_calls' =
                         Append(analyzer_calls,
                                AnalyzerCall(InputFile, Hdr10ExtraArgs(args), o))
                   /\ directory' = IF o.exe_found /\ o.written
                                   THEN directory \cup {AnalyzerOutput(InputFile)}
                                   ELSE directory
                   /\ IF analyzed = None
                      THEN Return("False") /\ Ran("measurements", "failed")
                      ELSE Goto("static_metadata") /\ Ran("measurements", "ok")
    /\ UNCHANGED <<probe, details_text, hdr_checked, static_meta, trims, hdr_type,
                   hdr10plus_json, bl_source_file, trim_targets, rpu_call, reclassified,
                   args, MI_JSON_CACHE, entry_dir, validated, extra_json, verifyVars>>
    /\ UNCHANGED <<batchVars, lookupVars>>

\* Lines 292-305: the analyzer is run on the HLG source.
AnalyzeHlg ==
    /\ pc = "branch"
    /\ hdr_type = HLG
    /\ \E o \in AnalyzerOutcomes :
        LET analyzed == run_hdr_analyzer(InputFile, directory, o)
        IN /\ measurements_file' = analyzed
           /\ invoked' = IF o.exe_found THEN Append(invoked, "hdr_analyzer_mvp")
                         ELSE invoked
           /\ analyzer_calls' =
                 Append(analyzer_calls, AnalyzerCall(InputFile, HlgExtraArgs(args), o))
           /\ directory' = IF o.exe_found /\ o.written
                           THEN directory \cup {AnalyzerOutput(InputFile)}
                           ELSE directory
           /\ IF analyzed = None
              THEN Return("False") /\ Ran("analyze hlg", "failed")
              ELSE Goto("hlg_to_pq") /\ Ran("analyze hlg", "ok")
    /\ UNCHANGED <<probe, details_text, resultVars, hdr_type, hdr10plus_json,
                   bl_source_file, trim_targets, rpu_call, reclassified, args,
                   MI_JSON_CACHE, entry_dir, validated, extra_json, verifyVars>>
    /\ UNCHANGED <<batchVars, lookupVars>>

\* Lines 307-312: convert_hlg_to_pq reads the static metadata and the duration
\* of the source and re-encodes it; the base layer is taken from the PQ file.
PqFile == "movie_HLG_to_PQ.mkv"
EncodeOutcomes == [ok : BOOLEAN, written : BOOLEAN]

EncodeHlgToPq ==
    /\ pc = "hlg_to_pq"
    /\ \E o \in EncodeOutcomes,
          raised \in {get_static_metadata(InputFile, directory, probe, details_text).raised} :
        LET mi == get_mediainfo_json_cached(InputFile, MI_JSON_CACHE)
        IN /\ MI_JSON_CACHE' = mi.cache
           /\ IF raised # None
              THEN /\ Return(raised)
                   /\ Ran("hlg to pq", "raised")
                   /\ invoked' = invoked \o mi.calls
                   /\ UNCHANGED bl_source_file
              ELSE /\ invoked' = invoked \o mi.calls
                                     \o get_duration_from_mediainfo(InputFile, mi.cache).calls
                                     \o <<"ffmpeg hlg to pq">>
                   /\ IF o.ok /\ o.written
                      THEN /\ Goto("static_metadata")
                           /\ Ran("hlg to pq", "ok")
                           /\ bl_source_file' = HlgBaseLayerSource(InputFile, PqFile)
                      ELSE /\ Return("False")
                           /\ Ran("hlg to pq", "failed")
                           /\ UNCHANGED bl_source_file
    /\ UNCHANGED <<envVars, resultVars, hdr_type, measurements_file, hdr10plus_json,
                   trim_targets, rpu_call, reclassified, args, entry_dir,
                   analyzer_calls, validated, extra_json, verifyVars>>
    /\ UNCHANGED <<batchVars, lookupVars>>

\* Lines 314-316
RejectUnsupported ==
    /\ pc = "branch"
    /\ hdr_type = UNSUPPORTED
    /\ Return("False")
    /\ Ran("unsupported", "failed")
    /\ UNCHANGED <<envVars, resultVars, localVars, args, invoked, MI_JSON_CACHE, entry_dir,
                   analyzer_calls, validated, extra_json, verifyVars>>
    /\ UNCHANGED <<batchVars, lookupVars>>

\* Lines 318-320: static_meta = get_static_metadata(input_file); what
\* validate_static_metadata says is printed and not acted on.
ReadStaticMetadata ==
    /\ pc = "static_metadata"
    /\ static_meta' = get_static_metadata(InputFile, directory, probe, details_text)
    /\ LET mi == get_mediainfo_json_cached(InputFile, MI_JSON_CACHE)
       IN /\ MI_JSON_CACHE' = mi.cache
          /\ invoked' = invoked \o mi.calls
    /\ IF static_meta'.raised # None
       THEN /\ Return(static_meta'.raised)
            /\ Ran("static metadata", "raised")
            /\ UNCHANGED validated
       ELSE /\ Goto("trims")
            /\ Ran("static metadata", "ok")
            /\ validated' = validate_static_metadata(static_meta'.value)
    /\ UNCHANGED <<envVars, found, hdr_checked, trims, localVars, args, entry_dir,
                   analyzer_calls, extra_json, verifyVars>>
    /\ UNCHANGED <<batchVars, lookupVars>>

\* Lines 322-327: the targets of the arguments, or the ones derived from the
\* Details.txt when that is asked for and gives any.
DeriveTrimTargets ==
    /\ pc = "trims"
    /\ LET details_path == find_details_file(InputFile, directory)
           derived == IF details_path # None
                      THEN parse_madvr_details_for_trims(details_text) ELSE <<>>
       IN IF args.trim_from_details
          THEN /\ trims' = derived
               /\ trim_targets' = IF derived # <<>> THEN derived ELSE args.trim_targets
          ELSE /\ trim_targets' = args.trim_targets
               /\ UNCHANGED trims
    /\ Goto("extra_json")
    /\ Ran("trim targets", "ok")
    /\ UNCHANGED <<envVars, found, hdr_checked, static_meta, hdr_type, measurements_file,
                   hdr10plus_json, bl_source_file, rpu_call, reclassified, args, invoked,
                   MI_JSON_CACHE, entry_dir, analyzer_calls, validated, extra_json,
                   verifyVars>>
    /\ UNCHANGED <<batchVars, lookupVars>>

\* The level6 block, had it been filled from the defaults and not from the
\* record that was read.
Level6_Defaults(metadata) ==
    [max_display_mastering_luminance |-> defaults["max_dml"],
     min_display_mastering_luminance |-> (defaults["min_dml"] * 10000) \div Scale,
     max_content_light_level |-> defaults["max_cll"],
     max_frame_average_light_level |-> defaults["max_fall"]]

\* generate_extra_json: the level6 block; int(float(min_dml) * 10000) of a
\* count of 1/Scale, the other three values are ints already.
Level6(metadata) ==
    [max_display_mastering_luminance |-> metadata["max_dml"],
     min_display_mastering_luminance |-> (metadata["min_dml"] * 10000) \div Scale,
     max_content_light_level |-> metadata["max_cll"],
     max_frame_average_light_level |-> metadata["max_fall"]]

\* generate_extra_json: json_content
generate_extra_json(metadata, targets) ==
    [target_nits |-> targets, level6 |-> Level6(metadata)]

\* Lines 329-331: generate_extra_json writes extra.json, or fails on an
\* IOError.
GenerateExtraJson ==
    /\ pc = "extra_json"
    /\ \E written \in BOOLEAN :
        IF written
        THEN /\ Goto("generate_rpu")
             /\ Ran("extra.json", "ok")
             /\ extra_json' = generate_extra_json(static_meta.value, trim_targets)
        ELSE /\ Return("False")
             /\ Ran("extra.json", "failed")
             /\ UNCHANGED extra_json
    /\ UNCHANGED <<envVars, resultVars, localVars, args, invoked, MI_JSON_CACHE, entry_dir,
                   analyzer_calls, validated, verifyVars>>
    /\ UNCHANGED <<batchVars, lookupVars>>

\* RpuSource, had it gone by what the classifier said of the file.
RpuSource_ByClassification(json) ==
    IF hdr_checked.value = HDR10_PLUS THEN HDR10_PLUS ELSE HDR10_WITH_MEASUREMENTS

\* HdrFormat.HDR10_PLUS if hdr10plus_json else HdrFormat.HDR10_WITH_MEASUREMENTS
RpuSource(json) == IF json # None THEN HDR10_PLUS ELSE HDR10_WITH_MEASUREMENTS

\* Lines 333-341: the RPU is generated from the HDR10+ JSON when there is one,
\* from the measurements file otherwise.
GenerateRpu ==
    /\ pc = "generate_rpu"
    /\ \E ok \in BOOLEAN :
        LET type == RpuSource(hdr10plus_json)
            input == generate_rpu_input(type, hdr10plus_json, measurements_file)
        IN /\ rpu_call' = [hdr_type |-> type, metadata_file |-> hdr10plus_json,
                           measurements_file |-> measurements_file]
           /\ IF input = ""
              THEN Return("False") /\ Ran("generate rpu", "failed") /\ UNCHANGED invoked
              ELSE /\ invoked' = Append(invoked, "dovi_tool generate " \o input)
                   /\ IF ok
                      THEN Goto("extract_bl") /\ Ran("generate rpu", "ok")
                      ELSE Return("False") /\ Ran("generate rpu", "failed")
    /\ UNCHANGED <<envVars, resultVars, hdr_type, measurements_file, hdr10plus_json,
                   bl_source_file, trim_targets, reclassified, args, MI_JSON_CACHE,
                   entry_dir, analyzer_calls, validated, extra_json, verifyVars>>
    /\ UNCHANGED <<batchVars, lookupVars>>

\* Lines 343-364: the base layer is extracted from bl_source_file.
ExtractBaseLayer ==
    /\ pc = "extract_bl"
    /\ \E ok \in BOOLEAN :
        LET d == get_duration_from_mediainfo(bl_source_file, MI_JSON_CACHE)
        IN /\ MI_JSON_CACHE' = d.cache
           /\ IF d.raised # None
              THEN /\ Return(d.raised)
                   /\ Ran("extract bl", "raised")
                   /\ invoked' = invoked \o d.calls
              ELSE /\ invoked' = invoked \o d.calls
                                     \o <<"ffmpeg extract bl -i " \o bl_source_file>>
                   /\ IF ok
                      THEN Goto("inject_rpu") /\ Ran("extract bl", "ok")
                      ELSE Return("False") /\ Ran("extract bl", "failed")
    /\ UNCHANGED <<envVars, resultVars, localVars, args, entry_dir,
                   analyzer_calls, validated, extra_json, verifyVars>>
    /\ UNCHANGED <<batchVars, lookupVars>>

\* Lines 366-380
InjectRpu ==
    /\ pc = "inject_rpu"
    /\ \E ok \in BOOLEAN :
        /\ invoked' = Append(invoked, "dovi_tool inject-rpu")
        /\ IF ok
           THEN Goto("mux") /\ Ran("inject rpu", "ok")
           ELSE Return("False") /\ Ran("inject rpu", "failed")
    /\ UNCHANGED <<envVars, resultVars, localVars, args, MI_JSON_CACHE, entry_dir,
                   analyzer_calls, validated, extra_json, verifyVars>>
    /\ UNCHANGED <<batchVars, lookupVars>>

\* Lines 382-390: mkvmerge; it can exit non-zero and still have written the
\* output (warnings), and exit zero without one.
Mux ==
    /\ pc = "mux"
    /\ \E o \in EncodeOutcomes :
        /\ invoked' = Append(invoked, "mkvmerge")
        /\ directory' = IF o.written THEN directory \cup {OutputFile} ELSE directory
        /\ IF o.ok
           THEN Goto("post_mux") /\ Ran("mux", "ok")
           ELSE Return("False") /\ Ran("mux", "failed")
    /\ UNCHANGED <<probe, details_text, resultVars, localVars, args, MI_JSON_CACHE,
                   entry_dir, analyzer_calls, validated, extra_json, verifyVars>>
    /\ UNCHANGED <<batchVars, lookupVars>>

\* ---- verify_post_mux (verify.py)

\* A log file: its lines, or a file that cannot be opened.
Log(lines) == [readable |-> TRUE, lines |-> lines]
NoLog == [readable |-> FALSE, lines |-> <<>>]

\* The end of the whitespace that starts at i: \s*
RECURSIVE SkipSpaces(_, _)
SkipSpaces(str, i) ==
    IF i <= Len(str) /\ IsSpace(SubSeq(str, i, i)) THEN SkipSpaces(str, i + 1) ELSE i

\* re.search(r"^<label>\s*(\d+)", line.strip(), re.IGNORECASE), and with
\* to_end the same pattern closed by $: the captured count, or NoNumber.
CountAfter(line, label, to_end) ==
    LET t == Lower(Strip(line))
        from == SkipSpaces(t, Len(label) + 1)
        last == RunEnd(t, from, Digits)
    IN IF StartsWith(t, label) /\ last >= from /\ (to_end => last = Len(t))
       THEN DigitsToInt(SubSeq(t, from, last))
       ELSE NoNumber

\* _parse_frame_count_from_verifier_log: the count of the first line that has
\* one; None without such a line or without a readable log.
parse_frame_count_from_verifier_log(log) ==
    LET hits == {i \in 1..Len(log.lines) :
                    CountAfter(log.lines[i], "frame count:", FALSE) # NoNumber}
    IN IF ~log.readable \/ hits = {} THEN NoNumber
       ELSE CountAfter(log.lines[CHOOSE i \in hits : \A j \in hits : i <= j],
                       "frame count:", FALSE)

\* Step 4 of verify_post_mux, r"^Frames?:\s*(\d+)$": every matching line
\* overwrites frames_in_rpu, so the last one counts; an unreadable log ends the
\* step (except Exception: pass).
FramesLine(line) ==
    LET plural == CountAfter(line, "frames:", TRUE)
    IN IF plural # NoNumber THEN plural ELSE CountAfter(line, "frame:", TRUE)

frames_in_rpu(log) ==
    LET hits == {i \in 1..Len(log.lines) : FramesLine(log.lines[i]) # NoNumber}
    IN IF ~log.readable \/ hits = {} THEN NoNumber
       ELSE FramesLine(log.lines[CHOOSE i \in hits : \A j \in hits : j <= i])

\* str.isdigit()
IsDigits(str) == Len(str) > 0 /\ \A i \in 1..Len(str) : SubSeq(str, i, i) \in Digits

\* float(video_track.get(key, 0)) inside the try of get_frame_count_from_mediainfo
TrackFloat(track, key) ==
    LET str == GetStr(track, key, "0")
    IN IF \A i \in 1..Len(str) : SubSeq(str, i, i) \in NumberChars
       THEN PyFloat(str) ELSE ValueError

\* get_frame_count_from_mediainfo on the parsed JSON: FrameCount when it is all
\* digits, else round(Duration / 1000 * FrameRate) when both are positive (the
\* product of the seconds and the rate, each with two decimals).
get_frame_count_from_mediainfo(json) ==
    LET tracks == JsonTracks(json)
        v == VideoTrackIndex(tracks)
        frame_count_str == GetStr(tracks[v], "FrameCount", "")
        duration_ms == TrackFloat(tracks[v], "Duration")
        frame_rate == TrackFloat(tracks[v], "FrameRate")
    IN IF v = 0 THEN NoNumber
       ELSE IF IsDigits(frame_count_str) THEN DigitsToInt(frame_count_str)
       ELSE IF duration_ms > 0 /\ frame_rate > 0
       THEN RoundOf(((duration_ms \div 1000) \div 100) * (frame_rate \div 100))
       ELSE NoNumber

\* FrameReports, had two agreeing counts outvoted the third.
FrameReports_Majority(meas_frames, dv_frames, rpu_frames) ==
    IF meas_frames # dv_frames /\ dv_frames # rpu_frames /\ meas_frames # rpu_frames
    THEN {"measurements/container", "rpu/container", "rpu/measurements"}
    ELSE {}

\* The frame-count comparisons of steps 3 and 4: each pair of counts that are
\* both known and differ is reported and sets ok = False.
FrameReports(meas_frames, dv_frames, rpu_frames) ==
    (IF meas_frames # NoNumber /\ dv_frames # NoNumber /\ dv_frames # meas_frames
     THEN {"measurements/container"} ELSE {})
    \cup (IF rpu_frames # NoNumber /\ dv_frames # NoNumber /\ rpu_frames # dv_frames
          THEN {"rpu/container"} ELSE {})
    \cup (IF meas_frames # NoNumber /\ rpu_frames # NoNumber /\ rpu_frames # meas_frames
          THEN {"rpu/measurements"} ELSE {})

\* re.search(r"Profile\s+([0-9.]+)", s, re.IGNORECASE) on the stripped line:
\* group 1 of the leftmost match, or None.
ProfileOfLine(line) ==
    LET t == Lower(Strip(line))
        n == Len("profile")
        starts == {i \in 1..Len(t) :
                      /\ i + n <= Len(t)
                      /\ SubSeq(t, i, i + n - 1) = "profile"
                      /\ IsSpace(SubSeq(t, i + n, i + n))
                      /\ RunEnd(t, SkipSpaces(t, i + n), NumberChars)
                            >= SkipSpaces(t, i + n)}
        i0 == CHOOSE i \in starts : \A j \in starts : i <= j
        from == SkipSpaces(t, i0 + n)
    IN IF starts = {} THEN None ELSE SubSeq(t, from, RunEnd(t, from, NumberChars))

\* Step 4: every matching line overwrites profile_str, so the last one counts;
\* None without such a line or without a readable log.
profile_in_rpu(log) ==
    LET hits == {i \in 1..Len(log.lines) : ProfileOfLine(log.lines[i]) # None}
    IN IF ~log.readable \/ hits = {} THEN None
       ELSE ProfileOfLine(log.lines[CHOOSE i \in hits : \A j \in hits : j <= i])

\* if profile_str and not profile_str.startswith("8"): a warning is printed.
ProfileWarning(log) ==
    LET profile_str == profile_in_rpu(log)
    IN IF profile_str # None /\ ~StartsWith(profile_str, "8") THEN {"profile"} ELSE {}

\* Step 5: a warning is printed when the video track of the output names
\* Dolby Vision neither in HDR_Format nor in HDR_Format_Compatibility; no
\* JSON or no video track, no warning.
DolbyVisionTagWarning(json) ==
    LET tracks == JsonTracks(json)
        v == VideoTrackIndex(tracks)
        combined == Lower(GetStr(tracks[v], "HDR_Format", "") \o " "
                          \o GetStr(tracks[v], "HDR_Format_Compatibility", ""))
    IN IF json.kind = "tracks" /\ v # 0 /\ ~Contains(combined, "dolby vision")
       THEN {"dolby vision tag"} ELSE {}

\* The value returned, had a warning of the profile or of the tag check counted
\* as an inconsistency.
Verdict_WarningsFatal(reports, warnings) == reports = {} /\ warnings = {}

\* ok: True unless a frame-count comparison has set it to False; the profile
\* and the tag check print their warning and leave ok alone.
Verdict(reports, warnings) == reports = {}

VerifyResult(ok, raised, calls, cache, checks, reports, warnings) ==
    [ok |-> ok, raised |-> raised, calls |-> calls, cache |-> cache, checks |-> checks,
     reports |-> reports, warnings |-> warnings]

\* verify_post_mux, given what its tools did and wrote: the verifier runs only
\* on a measurements file that exists; a tool that fails ends the verification
\* with False; then the frame counts are compared, the profile and the Dolby
\* Vision tag looked at, and ok returned.
verify_post_mux(meas_file, dir, cache, o) ==
    LET verifying == meas_file # None /\ meas_file \in dir
        c1 == IF verifying THEN <<"verifier">> ELSE <<>>
        meas_frames == IF verifying THEN parse_frame_count_from_verifier_log(o.verifier_log)
                       ELSE NoNumber
        tools == c1 \o <<"dovi_tool extract-rpu", "dovi_tool info">>
        mi == CachedLookup(OutputFile, o.output_json, cache)
        again == CachedLookup(OutputFile, o.output_json, mi.cache)
        reports == FrameReports(meas_frames, get_frame_count_from_mediainfo(mi.json),
                                frames_in_rpu(o.info_log))
        warnings == ProfileWarning(o.info_log) \cup DolbyVisionTagWarning(again.json)
    IN IF verifying /\ ~o.verifier_ok
       THEN VerifyResult(FALSE, None, c1, cache, c1, {}, {})
       ELSE IF ~o.extract_ok
       THEN VerifyResult(FALSE, None, Append(c1, "dovi_tool extract-rpu"), cache,
                         Append(c1, "extract-rpu"), {}, {})
       ELSE IF ~o.info_ok
       THEN VerifyResult(FALSE, None, tools, cache, c1 \o <<"extract-rpu", "info">>, {}, {})
       ELSE IF mi.json.kind = "media_null"     \* None.get("track", [])
       THEN VerifyResult(Pending, "AttributeError", tools \o mi.calls, mi.cache,
                         c1 \o <<"extract-rpu", "info">>, {}, {})
       ELSE VerifyResult(Verdict(reports, warnings), None,
                         tools \o mi.calls \o again.calls, again.cache,
                         c1 \o <<"extract-rpu", "info", "frame counts", "profile",
                                 "dolby vision tag">>,
                         reports, warnings)

FrameCountTrack(fields) ==
    [kind |-> "tracks", tracks |-> <<GeneralTrack, VideoTrack(fields)>>]

OutputJsons ==
    { [kind |-> "fail", tracks |-> <<>>],
      [kind |-> "media_null", tracks |-> <<>>],
      [kind |-> "tracks", tracks |-> <<GeneralTrack>>],
      FrameCountTrack(<<Field("FrameCount", "240")>>),
      FrameCountTrack(<<Field("FrameCount", "241")>>),
      FrameCountTrack(<<Field("Duration", "10000.000"), Field("FrameRate", "24.000")>>),
      FrameCountTrack(<<Field("FrameCount", "n/a"), Field("Duration", "10000")>>) }

VerifierLogs ==
    { NoLog, Log(<<>>), Log(<<"Frame count: 240">>), Log(<<"  frame count:241 ">>),
      Log(<<"Total frame count: 239", "Frame Count: 240", "Frame count: 241">>) }

InfoLogs ==
    { NoLog, Log(<<"Summary:">>), Log(<<"Frames: 240", "Profile 8.1">>),
      Log(<<"  frame: 241">>), Log(<<"Frames: 239 (parsed)", "Frames: 240">>),
      Log(<<"Frames: 240", "FRAMES:241">>) }

VerifyOutcomes ==
    [verifier_ok : BOOLEAN, verifier_log : VerifierLogs, extract_ok : BOOLEAN,
     info_ok : BOOLEAN, info_log : InfoLogs, output_json : OutputJsons]

\* What the tools of the verification do in a run of convert_file: all pass
\* and the counts agree, the container has one frame more, one of the tools
\* fails, the mediainfo JSON of the output has no media.
ToolsOutcome(verifier_ok, extract_ok, info_ok, output_json) ==
    [verifier_ok |-> verifier_ok, verifier_log |-> Log(<<"Frame count: 240">>),
     extract_ok |-> extract_ok, info_ok |-> info_ok,
     info_log |-> Log(<<"Frames: 240", "Profile 8.1">>), output_json |-> output_json]

ConvertVerifyOutcomes ==
    { ToolsOutcome(TRUE, TRUE, TRUE, FrameCountTrack(<<Field("FrameCount", "240")>>)),
      ToolsOutcome(TRUE, TRUE, TRUE, FrameCountTrack(<<Field("FrameCount", "241")>>)),
      ToolsOutcome(FALSE, TRUE, TRUE, FrameCountTrack(<<Field("FrameCount", "240")>>)),
      ToolsOutcome(TRUE, FALSE, TRUE, FrameCountTrack(<<Field("FrameCount", "240")>>)),
      ToolsOutcome(TRUE, TRUE, FALSE, FrameCountTrack(<<Field("FrameCount", "240")>>)),
      ToolsOutcome(TRUE, TRUE, TRUE, [kind |-> "media_null", tracks |-> <<>>]) }

\* Lines 405-422: the source, the measurements file and the Details.txt are
\* removed in this order; the first os.remove that fails ends the cleanup.
Removals == 3

Cleanup(dir, meas_file, failing) ==
    LET d1 == IF failing = 1 THEN dir ELSE dir \ {InputFile}
        meas_to_del == IF meas_file # None THEN meas_file
                       ELSE find_measurements_file(InputFile, d1)
        d2 == IF failing = 2 \/ meas_to_del = None THEN d1 ELSE d1 \ {meas_to_del}
        details_to_del == find_details_file(InputFile, d2)
        d3 == IF failing = 3 \/ details_to_del = None THEN d2 ELSE d2 \ {details_to_del}
    IN IF failing = 1 THEN d1
       ELSE IF failing = 2 /\ meas_to_del \in d1 THEN d1
       ELSE IF failing = 3 /\ details_to_del \in d2 THEN d2
       ELSE d3

\* SourcesAfter, had the cleanup not waited for the outcome.
SourcesAfter_Regardless(dir, a, meas_file, failing, success) ==
    IF ~a.keep_source THEN Cleanup(dir, meas_file, failing) ELSE dir

\* Lines 392-422: the files of the directory when convert_file returns. The
\* cleanup is behind every return False of the tail, and keep_source skips it.
SourcesAfter(dir, a, meas_file, failing, success) ==
    IF success /\ ~a.keep_source THEN Cleanup(dir, meas_file, failing) ELSE dir

\* Lines 392-427: without an output the run has failed; with --verify a failed
\* verification fails it; then the source files are cleaned up unless kept.
FinishMux ==
    /\ pc = "post_mux"
    /\ \E o \in ConvertVerifyOutcomes, failing \in 0..Removals :
        \E v \in {verify_post_mux(measurements_file, directory, MI_JSON_CACHE, o)} :
            IF OutputFile \notin directory
            THEN /\ Return("False")
                 /\ Ran("post-mux", "failed")
                 /\ directory' = SourcesAfter(directory, args, measurements_file, failing, FALSE)
                 /\ UNCHANGED <<invoked, MI_JSON_CACHE, verifyVars>>
            ELSE IF ~verify_requested(args)
            THEN /\ Return("True")
                 /\ Ran("post-mux", "ok")
                 /\ directory' = SourcesAfter(directory, args, measurements_file, failing, TRUE)
                 /\ UNCHANGED <<invoked, MI_JSON_CACHE, verifyVars>>
            ELSE /\ verify_call' = [measurements_file |-> measurements_file]
                 /\ UNCHANGED <<other_call, other_verified>>
                 /\ verified' = v
                 /\ invoked' = invoked \o v.calls
                 /\ MI_JSON_CACHE' = v.cache
                 /\ directory' = SourcesAfter(directory, args, measurements_file, failing,
                                               v.raised = None /\ v.ok)
                 /\ IF v.raised # None
                    THEN Return(v.raised) /\ Ran("post-mux", "raised")
                    ELSE IF ~v.ok
                    THEN Return("False") /\ Ran("post-mux", "failed")
                    ELSE Return("True") /\ Ran("post-mux", "ok")
    /\ UNCHANGED <<probe, details_text, resultVars, localVars, args, entry_dir,
                   analyzer_calls, validated, extra_json>>
    /\ UNCHANGED <<batchVars, lookupVars>>

\* ---- the inputs convert_file is run on

HealthyFields ==
    <<Field("MasteringDisplay_Luminance", "min: 0.0050 cd/m2, max: 1000 cd/m2"),
      Field("MaxCLL", "800 cd/m2"), Field("MaxFALL", "300 cd/m2"),
      Field("Duration", "60000")>>

JsonWith(fields) ==
    [kind |-> "tracks", tracks |-> <<GeneralTrack, VideoTrack(fields \o HealthyFields)>>]

JsonFailed == [kind |-> "fail", tracks |-> <<>>]
JsonMediaNull == [kind |-> "media_null", tracks |-> <<>>]

Probe(i, j, f) == [inform |-> i, json |-> j, ffprobe |-> f]

ConvertProbes ==
    { Probe(Outcome("ok", "SMPTE ST 2094 App 4 / HDR10+ Profile B / HDR10\n"),
            JsonWith(<<Field("HDR_Format", "SMPTE ST 2094 App 4")>>),
            Outcome("ok", "smpte2084\n")),
      Probe(Outcome("ok", "HDR10+\n"), JsonMediaNull, Outcome("ok", "smpte2084\n")),
      Probe(Outcome("ok", "SMPTE ST 2086 / HDR10\n"),
            [kind |-> "tracks",
             tracks |-> <<GeneralTrack,
                          VideoTrack(<<Field("HDR_Format", "SMPTE ST 2086"),
                                       Field("MasteringDisplay_Luminance",
                                             "min: 0.0000 cd/m2, max: 20000 cd/m2"),
                                       Field("MaxCLL", "0 cd/m2"),
                                       Field("Duration", "60000")>>)>>],
            Outcome("ok", "smpte2084\n")),
      Probe(Outcome("ok", "HDR10\n"),
            [kind |-> "tracks",
             tracks |-> <<GeneralTrack, VideoTrack(<<Field("MaxCLL", "n.a.")>>)>>],
            Outcome("ok", "smpte2084\n")),
      Probe(Outcome("ok", "\n"), JsonFailed, Outcome("ok", "smpte2084\n")),
      Probe(Outcome("ok", "\n"),
            JsonWith(<<Field("transfer_characteristics", "HLG")>>),
            Outcome("ok", "arib-std-b67\n")),
      Probe(Outcome("ok", "HLG\n"), JsonMediaNull, Outcome("missing", "")),
      Probe(Outcome("ok", "\n"), JsonFailed, Outcome("ok", "bt709\n")),
      Probe(Outcome("nonzero", ""), JsonWith(<<>>), Outcome("ok", "smpte2084\n")),
      Probe(Outcome("missing", ""), JsonFailed, Outcome("ok", "smpte2084\n")) }

ConvertDirectories ==
    { {InputFile} \cup others :
        others \in SUBSET {OutputFile, "movie.measurements", "movie_Details.txt"} }

ConvertDetailsTexts ==
    { Unreadable,
      Text(<<Line("lum", "0,0001", "40000"), Line("fall", "350", ""),
             Line("peak", "999,5", ""), Line("max_target", "4000", "")>>) }

Init ==
    /\ directory \in ConvertDirectories
    /\ probe \in ConvertProbes
    /\ details_text \in IF find_details_file(InputFile, directory) = None
                         THEN {Unreadable} ELSE ConvertDetailsTexts
    /\ NothingCalled
    /\ pc = "idle"
    /\ args \in Arguments
    /\ FreshLocals
    /\ invoked = <<>>
    /\ result = Pending
    /\ MI_JSON_CACHE = EmptyDict
    /\ entry_dir = {}
    /\ results = <<>>
    /\ NoTrace
    /\ NoVerification
    /\ MainNotStarted
    /\ files_to_process = [i \in 1..MaxRuns |-> InputFile]

Next ==
    \/ ConvertFile
    \/ SkipExisting
    \/ Classify
    \/ ExtractHdr10Plus
    \/ LocateMeasurements
    \/ AnalyzeHlg
    \/ EncodeHlgToPq
    \/ RejectUnsupported
    \/ ReadStaticMetadata
    \/ DeriveTrimTargets
    \/ GenerateExtraJson
    \/ GenerateRpu
    \/ ExtractBaseLayer
    \/ InjectRpu
    \/ Mux
    \/ FinishMux
    \/ SkipMissingInput
    \/ EndOfBatch
    \/ UncaughtException
    \/ MeasurementsRemoved

Spec == Init /\ [][Next]_vars

\* ------------------------------------------- the classifier, run on its own

ClassifyInit ==
    /\ directory \in ClassifierDirectories
    /\ probe \in Probes
    /\ details_text = Unreadable
    /\ NothingCalled
    /\ NoConversion

\* check_hdr_format(input_file)
CheckHdrFormat ==
    /\ hdr_checked = NotCalled
    /\ hdr_checked' = check_hdr_format(InputFile, directory, probe)
    /\ found' = IF probe.inform.kind = "ok"      \* the lookup of line 354
                THEN find_measurements_file(InputFile, directory)
                ELSE found
    /\ UNCHANGED <<envVars, static_meta, trims, convertVars>>
    /\ UNCHANGED <<batchVars, lookupVars>>

ClassifySpec == ClassifyInit /\ [][CheckHdrFormat]_vars

\* ------------------------------------------------ the lookup, run on its own

FindInit ==
    /\ directory \in Directories
    /\ probe = NoProbe
    /\ details_text = Unreadable
    /\ NothingCalled
    /\ NoConversion

\* find_measurements_file(input_file)
FindMeasurementsFile ==
    /\ found = Pending
    /\ found' = find_measurements_file(InputFile, directory)
    /\ UNCHANGED <<envVars, hdr_checked, static_meta, trims, convertVars>>
    /\ UNCHANGED <<batchVars, lookupVars>>

FindSpec == FindInit /\ [][FindMeasurementsFile]_vars

\* ------------------------------------- the metadata extractor on its own

DetailsNames == {"movie_mkv_Details.txt", "movie_Details.txt", "movie2_mkv_Details.txt"}

\* The directories the extractor is run in: no Details.txt, an exact name, and
\* a name only the glob pattern matches.
DetailsDirectories ==
    { {}, {"movie_Details.txt"}, {"movie2_mkv_Details.txt"} }

DetailsLines ==
    { Line("clip_header", "", ""),
      Line("lum", "0,0001", "4000"),
      Line("lum", "0", "0.5"),
      Line("cll100", "1200", ""),
      Line("cll", "900", ""),
      Line("cll100", "0", ""),
      Line("fall", "350", "") }

MaxDetailsLines == 2

DetailsTexts ==
    {Unreadable} \cup
        {Text(l) : l \in UNION {[1..n -> DetailsLines] : n \in 0..MaxDetailsLines}}

Absent == None
LuminanceStrings ==
    { Absent, "min: 0.0050 cd/m2, max: 1000 cd/m2", "min: 0.0010 cd/m2, max: 4000 cd/m2",
      "min: 0.0050 cd/m2, max: 1.0.0.0 cd/m2" }
MaxCllStrings == { Absent, "800 cd/m2", "0 cd/m2", "n.a." }
MaxFallStrings == { Absent, "300 cd/m2", "0" }

OptionalField(k, v) == IF v = Absent THEN <<>> ELSE <<Field(k, v)>>

MetadataTrackLists ==
    { <<GeneralTrack>> } \cup
    { <<GeneralTrack,
        VideoTrack(OptionalField("MasteringDisplay_Luminance", mdl)
                       \o OptionalField("MaxCLL", cll)
                       \o OptionalField("MaxFALL", fall))>> :
        mdl \in LuminanceStrings, cll \in MaxCllStrings, fall \in MaxFallStrings }

MetadataJsonOutcomes ==
    { [kind |-> "fail", tracks |-> <<>>], [kind |-> "media_null", tracks |-> <<>>] }
        \cup {[kind |-> "tracks", tracks |-> t] : t \in MetadataTrackLists}

MetaInit ==
    /\ directory \in DetailsDirectories
    /\ probe \in [inform : {Outcome("ok", "\n")}, json : MetadataJsonOutcomes,
                  ffprobe : {Outcome("missing", "")}]
    /\ details_text \in IF find_details_file(InputFile, directory) = None
                         THEN {Unreadable} ELSE DetailsTexts
    /\ NothingCalled
    /\ NoConversion

\* get_static_metadata(input_file)
GetStaticMetadata ==
    /\ static_meta = NoMetadata
    /\ static_meta' = get_static_metadata(InputFile, directory, probe, details_text)
    /\ UNCHANGED <<envVars, found, hdr_checked, trims, convertVars>>
    /\ UNCHANGED <<batchVars, lookupVars>>

MetaSpec == MetaInit /\ [][GetStaticMetadata]_vars

\* ------------------------------------------ the trim deriver on its own

TrimNumbers ==
    { "0", "0.4", "79.5", "99,5", "100", "999,5", "1000", "10000.5", "10001", "," }

TrimLines ==
    { Line("other", "", "") }
        \cup {Line("peak", n, "") : n \in TrimNumbers}
        \cup {Line("max_target", n, "") : n \in TrimNumbers}

MaxTrimLines == 2

TrimTexts ==
    {Unreadable} \cup
        {Text(l) : l \in UNION {[1..n -> TrimLines] : n \in 0..MaxTrimLines}}

TrimInit ==
    /\ directory = {"movie_Details.txt"}
    /\ probe = NoProbe
    /\ details_text \in TrimTexts
    /\ NothingCalled
    /\ NoConversion

\* parse_madvr_details_for_trims(details_path)
ParseDetailsForTrims ==
    /\ trims = NotDerived
    /\ trims' = parse_madvr_details_for_trims(details_text)
    /\ UNCHANGED <<envVars, found, hdr_checked, static_meta, convertVars>>
    /\ UNCHANGED <<batchVars, lookupVars>>

TrimSpec == TrimInit /\ [][ParseDetailsForTrims]_vars

\* ------------------------------------- validate_static_metadata on its own

\* The records the function is called with: any of the four keys may be
\* missing, and the values lie on both sides of every threshold.
ValidationValues ==
    [max_dml : {99, 100, 10000, 10001}, min_dml : {-1, 0, 1, 500, 501},
     max_cll : {0, 1, 10000, 10001}, max_fall : {0, 1, 10000, 10001}]

ValidationInputs ==
    { [k \in keys |-> v[k]] : keys \in SUBSET MetadataKeys, v \in ValidationValues }

ValidateInit ==
    /\ directory = {}
    /\ probe = NoProbe
    /\ details_text = Unreadable
    /\ found = Pending
    /\ hdr_checked = NotCalled
    /\ mi_lookups = <<>>
    /\ static_meta \in {StaticMetadata(m, None, EmptyDict, EmptyDict) : m \in ValidationInputs}
    /\ trims = NotDerived
    /\ NoConversion

ValidateStaticMetadata ==
    /\ validated = NoValidation
    /\ validated' = validate_static_metadata(static_meta.value)
    /\ UNCHANGED <<envVars, resultVars, localVars, callVars, steps, analyzer_calls,
                   extra_json, verifyVars, mainVars>>
    /\ UNCHANGED <<batchVars, lookupVars>>

ValidateSpec == ValidateInit /\ [][ValidateStaticMetadata]_vars

\* ---------------------------------------------------- claims: classifier

Classified == hdr_checked # NotCalled

\* The markers of the probe string (tier 1), as the specification lists them.
StringHasPlus(str) == Contains(str, "HDR10+") \/ Contains(str, "SMPTE ST 2094 App 4")
StringHasHlg(str) == Contains(str, "HLG")
StringHasPq(str) ==
    Contains(str, "HDR10") \/ Contains(str, "PQ") \/ Contains(str, "ST 2084")
StringHasNoMarker(str) ==
    ~StringHasPlus(str) /\ ~StringHasHlg(str) /\ ~StringHasPq(str)

\* The markers of a structured track record (tier 2), case-insensitive.
FormatFields(track) ==
    Upper(GetStr(track, "HDR_Format", "")) \o " "
        \o Upper(GetStr(track, "HDR_Format_Compatibility", ""))
StringValues(track) == {Upper(track[i].val) : i \in {j \in 1..Len(track) : track[j].isstr}}
TrackHasPlus(track) ==
    \E m \in {"2094", "HDR10+", "HDR10 PLUS"} : Contains(FormatFields(track), m)
TrackHasHlg(track) ==
    \/ Contains(FormatFields(track), "HLG")
    \/ \E v \in StringValues(track) :
          Contains(v, "HLG") \/ (Contains(v, "ARIB") /\ Contains(v, "B67"))
TrackHasPq(track) ==
    \/ Contains(FormatFields(track), "HDR10")
    \/ \E v \in StringValues(track) : Contains(v, "SMPTE") /\ Contains(v, "2084")

\* The markers of the stream color-transfer value (tier 3), case-insensitive.
TransferHasHlg(out) == Contains(Lower(out), "arib-std-b67") \/ Contains(Lower(out), "hlg")
TransferHasPq(out) == Contains(Lower(out), "smpte2084") \/ Contains(Lower(out), "pq")

ProbedVideoTrack ==
    LET tracks == JsonTracks(probe.json) IN tracks[VideoTrackIndex(tracks)]
HasVideoTrack == VideoTrackIndex(JsonTracks(probe.json)) # 0

\* Tier 1 ran and gave no signal.
StringTierSilent == probe.inform.kind = "ok" /\ StringHasNoMarker(probe.inform.out)
\* Tier 2 ran and gave no signal.
TrackTierSilent ==
    /\ StringTierSilent
    /\ probe.json.kind # "media_null"
    /\ HasVideoTrack =>
          /\ ~TrackHasPlus(ProbedVideoTrack)
          /\ ~TrackHasHlg(ProbedVideoTrack)
          /\ ~TrackHasPq(ProbedVideoTrack)

Hdr10ByMeasurements ==
    /\ hdr_checked.raised = None
    /\ hdr_checked.value \in {HDR10_WITH_MEASUREMENTS, HDR10_UNSUPPORTED}
    /\ hdr_checked.value = HDR10_WITH_MEASUREMENTS <=> found # None
    /\ hdr_checked.value = HDR10_UNSUPPORTED <=> found = None

\* C1: a probe string that contains an HDR10+ marker ("HDR10+" or
\* "SMPTE ST 2094 App 4") is classified HDR10_PLUS, whatever HLG, HDR10, PQ or
\* ST 2084 markers it also contains and whether or not a measurements file is
\* found.
C1_Hdr10PlusMarkerWins ==
    (Classified /\ probe.inform.kind = "ok" /\ StringHasPlus(probe.inform.out))
        => (hdr_checked.raised = None /\ hdr_checked.value = HDR10_PLUS)

C1_Witness ==
    /\ Classified
    /\ probe.inform.kind = "ok"
    /\ StringHasPlus(probe.inform.out)
    /\ StringHasHlg(probe.inform.out)
    /\ found \notin {None, Pending}
    /\ hdr_checked.value = HDR10_PLUS

C3_ClassifierIsTotal ==
    Classified => (hdr_checked.raised = None /\ hdr_checked.value \in HdrFormat)

\* C4: a failed tier-1 mediainfo probe counts as no signal from that tier: the
\* structured-record tier and the ffprobe tier are still consulted and the
\* variant they indicate is returned.
C4_FailedStringProbeFallsThrough ==
    (Classified /\ probe.inform.kind = "nonzero") =>
        /\ \E i \in 1..Len(hdr_checked.calls) : hdr_checked.calls[i] = "mediainfo_json"
        /\ hdr_checked.value =
              FallbackTiers(probe, find_measurements_file(InputFile, directory)).value

\* ------------------------------------------------------- claims: lookup

ExactNamesByPriority ==
    << "measurements.bin", "movie.mkv.measurements", "movie.measurements",
       "movie_measurements.bin" >>
ExactPresent == {i \in 1..Len(ExactNamesByPriority) : ExactNamesByPriority[i] \in directory}
StemMatches(suffix) == {n \in directory : StartsWith(n, "movie") /\ EndsWith(n, suffix)}
GlobSuffixes == {".measurements", "_measurements.bin"}
\* Every file that qualifies as a measurements candidate for movie.mkv.
AllCandidates ==
    {ExactNamesByPriority[i] : i \in ExactPresent}
        \cup StemMatches(".measurements") \cup StemMatches("_measurements.bin")

MetadataCalled == static_meta.raised # Pending
MetadataReturned == static_meta.raised = None

\* C6: get_static_metadata is total: whatever the mediainfo probe, the video
\* track, the field strings and Details.txt are, it returns without raising a
\* record with the four keys, each holding a value parsed from a source or
\* exactly its default (1000, 0.005, 1000, 400).
C6_StaticMetadataIsTotal ==
    MetadataCalled =>
        /\ static_meta.raised = None
        /\ DOMAIN static_meta.value = MetadataKeys
        /\ \A k \in MetadataKeys :
              \/ static_meta.value[k] = defaults[k]
              \/ k \in DOMAIN static_meta.mediainfo
                    /\ static_meta.value[k] = static_meta.mediainfo[k]
              \/ k \in DOMAIN static_meta.details
                    /\ static_meta.value[k] = static_meta.details[k]

\* The value the sources give a field, Details.txt before mediainfo; 0 when
\* neither sets it.
SourceValue(k) ==
    IF k \in DOMAIN static_meta.details THEN static_meta.details[k]
    ELSE IF k \in DOMAIN static_meta.mediainfo THEN static_meta.mediainfo[k]
    ELSE 0

\* C7 as claimed: per field, the Details.txt value if the parse produced one,
\* else the mediainfo value, else the default.
C7_PerFieldPrecedence ==
    MetadataReturned =>
        \A k \in MetadataKeys :
            static_meta.value[k] =
                IF k \in DOMAIN static_meta.details THEN static_meta.details[k]
                ELSE IF k \in DOMAIN static_meta.mediainfo THEN static_meta.mediainfo[k]
                ELSE defaults[k]

\* C7 as amended: in every record get_static_metadata returns, each field holds
\* the Details.txt value if the parse produced one, else the mediainfo value,
\* unless that value is 0: a value of 0 counts as not set and the field gets its
\* default (also when a Details.txt 0 displaced a non-zero mediainfo value).
C7_PerFieldPrecedenceZeroIsUnset ==
    MetadataReturned =>
        \A k \in MetadataKeys :
            static_meta.value[k] = IF SourceValue(k) # 0 THEN SourceValue(k) ELSE defaults[k]

C7_Witness ==
    /\ MetadataReturned
    /\ \E k1, k2, k3 \in MetadataKeys :
          /\ k1 \in DOMAIN static_meta.details /\ k1 \in DOMAIN static_meta.mediainfo
          /\ static_meta.details[k1] # static_meta.mediainfo[k1]
          /\ static_meta.mediainfo[k1] # 0
          /\ static_meta.value[k1] = static_meta.details[k1]
          /\ k2 \notin DOMAIN static_meta.details /\ k2 \in DOMAIN static_meta.mediainfo
          /\ static_meta.value[k2] = static_meta.mediainfo[k2]
          /\ static_meta.value[k2] # defaults[k2]
          /\ k3 \notin DOMAIN static_meta.details /\ k3 \notin DOMAIN static_meta.mediainfo
          /\ static_meta.value[k3] = defaults[k3]

\* ------------------------------------------------------ claims: trims

TrimsCalled == trims # NotDerived

\* The float a pattern extracts from the text, NoNumber when the pattern does
\* not match or captures no digit.
ExtractedNits(kind) ==
    LET capture == FirstCapture(details_text.lines, kind)
    IN IF capture = None THEN NoNumber ELSE extract_number(capture)

\* S of the claim: 100 plus each extracted value that is present and positive
\* (as the integer the code rounds it to), restricted to [80, 10000].
PlausibleTargets ==
    LET present == {k \in {"peak", "max_target"} :
                       ExtractedNits(k) # NoNumber /\ ExtractedNits(k) > 0}
    IN {t \in {100} \cup {RoundOf(ExtractedNits(k)) : k \in present} : 80 <= t /\ t <= 10000}

\* C8: with S = 100 plus the extracted values that are present and positive,
\* restricted to [80, 10000]: when S has two distinct values or more the result
\* is S as a strictly increasing list that contains 100; with fewer, or when the
\* file cannot be read, the result is None.
C8_TrimsAreSortedSetOrNone ==
    TrimsCalled =>
        IF details_text.readable /\ Cardinality(PlausibleTargets) >= 2
        THEN /\ {trims[i] : i \in 1..Len(trims)} = PlausibleTargets
             /\ \A i \in 1..(Len(trims) - 1) : trims[i] < trims[i + 1]
             /\ \E i \in 1..Len(trims) : trims[i] = 100
        ELSE trims = <<>>

C8_Witness ==
    /\ TrimsCalled
    /\ ExtractedNits("peak") > 0
    /\ ExtractedNits("max_target") > 0
    /\ ExtractedNits("peak") # ExtractedNits("max_target")
    /\ RoundOf(ExtractedNits("peak")) = RoundOf(ExtractedNits("max_target"))
    /\ Len(trims) = 2
    /\ trims[1] = 100

\* ------------------------------------------ verify_post_mux, run on its own

VerifyInit ==
    /\ directory \in {{OutputFile}, {OutputFile, "movie_measurements.bin"}}
    /\ probe = NoProbe
    /\ details_text = Unreadable
    /\ NothingCalled
    /\ pc = "idle"
    /\ args = NoArguments
    /\ FreshLocals
    /\ invoked = <<>>
    /\ result = Pending
    /\ MI_JSON_CACHE = EmptyDict
    /\ entry_dir = {}
    /\ results = <<>>
    /\ NoTrace
    /\ MainNotStarted
    /\ files_to_process = <<>>
    /\ verified = NotVerified
    /\ verify_call \in [measurements_file : {None, "movie_measurements.bin"},
                        tools : VerifyOutcomes]
    /\ other_call = NoVerifyCall
    /\ other_verified = NotVerified

\* verify_post_mux(input_file, dv_output_file, measurements_file, temp_dir)
VerifyPostMux ==
    /\ verified = NotVerified
    /\ verified' = verify_post_mux(verify_call.measurements_file, directory, MI_JSON_CACHE,
                                   verify_call.tools)
    /\ UNCHANGED <<envVars, resultVars, localVars, callVars, traceVars, verify_call,
                   other_call, other_verified, mainVars>>
    /\ UNCHANGED <<batchVars, lookupVars>>

VerifySpec == VerifyInit /\ [][VerifyPostMux]_vars

\* -------------------- verify_post_mux, twice on the same counts and outcomes

\* What the two calls have in common: the outcome of each tool, the verifier
\* log, and the lines and fields the frame counts are read from.
AdvisoryToolOutcomes ==
    { <<TRUE, TRUE, TRUE>>, <<FALSE, TRUE, TRUE>>, <<TRUE, FALSE, TRUE>>,
      <<TRUE, TRUE, FALSE>> }
AdvisoryVerifierLogs == { Log(<<>>), Log(<<"Frame count: 240">>) }
FrameLines == { <<>>, <<"Frames: 240">>, <<"Frames: 241">> }
FrameFields == { <<>>, <<Field("FrameCount", "240")>>, <<Field("FrameCount", "241")>> }

\* What differs between them: the profile the summary names, and the HDR
\* format fields of the video track.
ProfileLines ==
    { <<>>, <<"Profile 8.1">>, <<"Profile: 8.4 (P8.4)", "  RPU PROFILE   7 (FEL)">> }
DolbyVisionFields ==
    { <<>>,
      <<Field("HDR_Format", "Dolby Vision, Version 1.0, dvhe.08.06, BL+RPU")>>,
      <<Field("HDR_Format", "SMPTE ST 2086"),
        Field("HDR_Format_Compatibility", "HDR10")>> }

AdvisoryCall(meas_file, t, verifier_log, frame_lines, frame_fields, profile, fields) ==
    [measurements_file |-> meas_file,
     tools |-> [verifier_ok |-> t[1], verifier_log |-> verifier_log,
                extract_ok |-> t[2], info_ok |-> t[3],
                info_log |-> Log(frame_lines \o profile),
                output_json |-> FrameCountTrack(frame_fields \o fields)]]

AdvisoryInit ==
    /\ directory = {OutputFile, "movie_measurements.bin"}
    /\ probe = NoProbe
    /\ details_text = Unreadable
    /\ NothingCalled
    /\ pc = "idle"
    /\ args = NoArguments
    /\ FreshLocals
    /\ invoked = <<>>
    /\ result = Pending
    /\ MI_JSON_CACHE = EmptyDict
    /\ entry_dir = {}
    /\ results = <<>>
    /\ NoTrace
    /\ MainNotStarted
    /\ files_to_process = <<>>
    /\ verified = NotVerified
    /\ other_verified = NotVerified
    /\ \E meas_file \in {None, "movie_measurements.bin"}, t \in AdvisoryToolOutcomes,
          verifier_log \in AdvisoryVerifierLogs, frame_lines \in FrameLines,
          frame_fields \in FrameFields :
          \E p1 \in ProfileLines, p2 \in ProfileLines,
             f1 \in DolbyVisionFields, f2 \in DolbyVisionFields :
              /\ verify_call = AdvisoryCall(meas_file, t, verifier_log, frame_lines,
                                            frame_fields, p1, f1)
              /\ other_call = AdvisoryCall(meas_file, t, verifier_log, frame_lines,
                                           frame_fields, p2, f2)

\* The second call of verify_post_mux.
VerifyOther ==
    /\ verified # NotVerified
    /\ other_call # NoVerifyCall
    /\ other_verified = NotVerified
    /\ other_verified' = verify_post_mux(other_call.measurements_file, directory, MI_JSON_CACHE,
                                         other_call.tools)
    /\ UNCHANGED <<envVars, resultVars, localVars, callVars, traceVars, verify_call,
                   verified, other_call, mainVars>>
    /\ UNCHANGED <<batchVars, lookupVars>>

AdvisoryNext == VerifyPostMux \/ VerifyOther

AdvisorySpec == AdvisoryInit /\ [][AdvisoryNext]_vars

\* ---------------------------------------------------------------------------
\* cli.main over a batch of several inputs, convert_file taken as one step.

\* The inputs a batch may name.
BatchPaths ==
    { "a/movie.mkv", "b/movie.mkv", "movie-1.mkv", "movie_1.mkv", "film.mkv",
      "film.DV.mkv", "gone.mkv" }

\* The number of inputs of a batch.
BatchLen == 2

Batches == [1..BatchLen -> BatchPaths]

\* The inputs that exist as files.
BatchDirectories == { BatchPaths \ {"gone.mkv"}, BatchPaths \ {"gone.mkv", "film.mkv"} }

BatchInit ==
    /\ files_to_process \in Batches
    /\ directory \in BatchDirectories
    /\ probe = NoProbe
    /\ details_text = Unreadable
    /\ NothingCalled
    /\ NotConverting

\* cli.main, lines 165-167: an entry that ends in ".DV.mkv" is skipped.
SkipConverted ==
    /\ BetweenFiles
    /\ file_index < Len(files_to_process)
    /\ CurrentEntry \in directory
    /\ EndsWith(CurrentEntry, ".DV.mkv")
    /\ file_index' = file_index + 1
    /\ UNCHANGED <<envVars, resultVars, localVars, callVars, traceVars, verifyVars,
                   had_failure, exit_code, batchVars, lookupVars>>

\* cli.main, lines 169-176: the working subdirectory is made and convert_file
\* returns True or False.
ProcessEntry ==
    /\ BetweenFiles
    /\ file_index < Len(files_to_process)
    /\ CurrentEntry \in directory
    /\ ~EndsWith(CurrentEntry, ".DV.mkv")
    /\ file_index' = file_index + 1
    /\ file_temp_dirs' = Append(file_temp_dirs, [file |-> CurrentEntry, dir |-> file_temp_dir(CurrentEntry)])
    /\ \E ok \in {"True", "False"} :
          /\ result' = ok
          /\ results' = Append(results, ok)
          /\ had_failure' = (had_failure \/ ok = "False")
    /\ pc' = "returned"
    /\ UNCHANGED <<envVars, resultVars, localVars, args, invoked, MI_JSON_CACHE, entry_dir,
                   traceVars, verifyVars, exit_code, files_to_process, lookupVars>>

BatchNext == SkipMissingInput \/ SkipConverted \/ ProcessEntry \/ EndOfBatch

BatchSpec == BatchInit /\ [][BatchNext]_vars

\* ---------------------------------------------------------------------------
\* get_mediainfo_json_cached called again and again while the files change.

\* The paths looked up: the input under two spellings, and the output.
CachePaths == { InputFile, "./" \o InputFile, OutputFile }

\* What mediainfo prints for the input at one time or another.
CacheJsons ==
    { JsonFailed, [kind |-> "media_null", tracks |-> <<>>], WrittenFileJson,
      [kind |-> "tracks", tracks |-> <<GeneralTrack>>] }

\* The calls that are followed.
MaxLookups == 3

CacheInit ==
    /\ directory = {InputFile, OutputFile}
    /\ probe \in {[NoProbe EXCEPT !.json = j] : j \in CacheJsons}
    /\ details_text = Unreadable
    /\ NothingCalled
    /\ NoConversion

\* external.get_mediainfo_json_cached(input_file)
GetMediainfoJsonCached ==
    /\ Len(mi_lookups) < MaxLookups
    /\ \E path \in CachePaths :
          /\ MI_JSON_CACHE' = get_mediainfo_json_cached(path, MI_JSON_CACHE).cache
          /\ mi_lookups' = Append(mi_lookups,
                                  [path |-> path,
                                   json |-> get_mediainfo_json_cached(path, MI_JSON_CACHE).json,
                                   calls |-> get_mediainfo_json_cached(path, MI_JSON_CACHE).calls])
          /\ invoked' = invoked \o get_mediainfo_json_cached(path, MI_JSON_CACHE).calls
    /\ UNCHANGED <<envVars, resultVars, localVars, pc, args, result, entry_dir, results,
                   traceVars, verifyVars, mainVars, batchVars>>

\* The input is rewritten, or removed, between two calls: mediainfo prints
\* something else from now on.
FileRewritten ==
    /\ \E j \in CacheJsons \ {probe.json} : probe' = [probe EXCEPT !.json = j]
    /\ UNCHANGED <<directory, details_text, resultVars, convertVars, batchVars, lookupVars>>

CacheNext == GetMediainfoJsonCached \/ FileRewritten

CacheSpec == CacheInit /\ [][CacheNext]_vars

\* ------------------------------------------------------------------ C9

InCall == pc # "idle"
Invoked(tool) == \E i \in 1..Len(invoked) : invoked[i] = tool

\* C9: when <stem>.DV.mkv exists at the moment convert_file is called, the call
\* invokes no external tool (so nothing writes the output: mkvmerge is its only
\* writer), leaves the directory, the source included, as it found it, and
\* returns True.
C9_ExistingOutputIsSkipped ==
    (InCall /\ OutputFile \in entry_dir) =>
        /\ invoked = <<>>
        /\ directory = entry_dir
        /\ InputFile \in directory
        /\ \/ pc = "entry"
           \/ pc \in {"returned", "exited"} /\ result = "True"

\* A second run over a source the first run converted: the first run probed the
\* file (a skipped run leaves no cache entry) and returned True, its source was
\* kept, and the second run has returned.
C9_Witness ==
    /\ pc = "returned"
    /\ results = <<"True", "True">>
    /\ abspath(InputFile) \in DOMAIN MI_JSON_CACHE
    /\ OutputFile \in entry_dir
    /\ invoked = <<>>

\* ----------------------------------------------------------------- C10

AnalyzerInvoked == Invoked("hdr_analyzer_mvp")

\* C10: a file classified HDR10_PLUS whose extraction reports
\* NO_DYNAMIC_METADATA is not failed by that: it is HDR10_UNSUPPORTED from then
\* on, without an HDR10+ JSON; the measurements branch takes it, reusing a
\* measurements file that exists and running the analyzer otherwise (a run ends
\* there only when the analyzer cannot be found or gives no file); and
\* generate_rpu is called for HDR10_WITH_MEASUREMENTS with that measurements
\* file and no HDR10+ JSON.
C10_ReclassifiedUsesMeasurements ==
    reclassified =>
        LET existing == found   \* what the lookup of line 272 gave
        IN /\ hdr_checked.value = HDR10_PLUS
           /\ hdr_type = HDR10_UNSUPPORTED
           /\ hdr10plus_json = None
           /\ pc = "branch" => result = Pending
           /\ pc # "branch" =>
                IF existing # None
                THEN measurements_file = existing /\ ~AnalyzerInvoked
                ELSE \/ AnalyzerInvoked /\ measurements_file \in {None, AnalyzerOutput(InputFile)}
                     \/ measurements_file = None /\ result = "False"
           /\ (measurements_file = None /\ pc # "branch") => result = "False"
           /\ rpu_call # NoRpuCall =>
                /\ rpu_call = [hdr_type |-> HDR10_WITH_MEASUREMENTS, metadata_file |-> None,
                               measurements_file |-> measurements_file]
                /\ measurements_file # None
                /\ Invoked("dovi_tool generate --madvr-file")
                /\ ~Invoked("dovi_tool generate --hdr10plus-json")

\* A reclassified file without a measurements file: the analyzer was run and the
\* whole conversion succeeded on its output.
C10_Witness ==
    /\ reclassified
    /\ found = None
    /\ AnalyzerInvoked
    /\ rpu_call.measurements_file = AnalyzerOutput(InputFile)
    /\ result = "True"

\* ----------------------------------------------------------------- C11

VerifyCalled == verified # NotVerified
VerifyCompared == \E i \in 1..Len(verified.checks) : verified.checks[i] = "frame counts"

\* The three frame counts of the call, NoNumber for one that is not available.
MeasurementFrames ==
    IF verify_call.measurements_file # None /\ verify_call.measurements_file \in directory
    THEN parse_frame_count_from_verifier_log(verify_call.tools.verifier_log)
    ELSE NoNumber
ContainerFrames == get_frame_count_from_mediainfo(verify_call.tools.output_json)
RpuFrames == frames_in_rpu(verify_call.tools.info_log)
AvailableCounts == {MeasurementFrames, ContainerFrames, RpuFrames} \ {NoNumber}

\* C11: when verify_post_mux has the three frame counts, it returns True exactly
\* when the three are equal, and any two that differ are reported, also when the
\* other two agree; with fewer counts it returns True only when the available
\* ones are equal.
C11_AnyPairwiseMismatchFails ==
    (VerifyCalled /\ VerifyCompared) =>
        /\ Cardinality(AvailableCounts) > 1 => (verified.ok = FALSE /\ verified.reports # {})
        /\ verified.ok = TRUE => Cardinality(AvailableCounts) <= 1
        /\ (MeasurementFrames # NoNumber /\ ContainerFrames # NoNumber /\ RpuFrames # NoNumber)
              => (verified.ok <=> Cardinality(AvailableCounts) = 1)

\* 240 frames in the measurements, 241 in the container, 240 in the RPU.
C11_Witness ==
    /\ VerifyCalled
    /\ MeasurementFrames = 240
    /\ ContainerFrames = 241
    /\ RpuFrames = 240
    /\ verified.ok = FALSE
    /\ verified.reports = {"measurements/container", "rpu/container"}

\* ----------------------------------------------------------------- C12

Checked(name) == \E i \in 1..Len(verified.checks) : verified.checks[i] = name

\* C12: verify_post_mux never raises, and whatever sub-check fails, the RPU
\* extraction and summary, the frame-count comparison, the profile check and the
\* Dolby Vision tag check are all run before it returns.
C12_FailedCheckOnlyDowngrades ==
    VerifyCalled =>
        /\ verified.raised = None
        /\ \A name \in {"extract-rpu", "info", "frame counts", "profile", "dolby vision tag"} :
              Checked(name)

\* ----------------------------------------------------------------- C13

Failed(r) == r # "True"

\* C13: an error of one file, returned or raised, stays with that file: when
\* the process ends every entry of the batch has been taken, and it ends with a
\* non-zero status exactly when a processed file failed.
C13_ErrorsStayAtFileBoundary ==
    pc = "exited" =>
        /\ file_index = MaxRuns
        /\ exit_code # "0" <=> \E i \in 1..Len(results) : Failed(results[i])

\* ----------------------------------------------------------------- C20

Validated == validated # NoValidation

\* The four values as validate_static_metadata reads them.
ValidatedValue(key) == DictGet(static_meta.value, key, 0)

\* The conditions on one field, and the list each of them is put on.
FieldFindingsAsListed ==
    /\ ValidatedValue("max_dml") > 10000 <=> "MaxDML exceeds range" \in validated.issues
    /\ ValidatedValue("min_dml") <= 0 <=> "MinDML must be positive" \in validated.issues
    /\ ValidatedValue("max_cll") <= 0 <=> "MaxCLL must be positive" \in validated.issues
    /\ ValidatedValue("max_fall") <= 0 <=> "MaxFALL must be positive" \in validated.issues
    /\ ValidatedValue("max_dml") < 100 <=> "MaxDML unusually low" \in validated.warnings
    /\ ValidatedValue("min_dml") * 100 > 5 * Scale
          <=> "MinDML unusually high" \in validated.warnings
    /\ ValidatedValue("max_cll") > 10000 <=> "MaxCLL exceeds range" \in validated.warnings
    /\ ValidatedValue("max_fall") > 10000 <=> "MaxFALL exceeds range" \in validated.warnings
    /\ validated.issues \cap validated.warnings = {}

ReturnsFalseOnErrorsOnly ==
    /\ validated.ok \in {"True", "False"}
    /\ validated.ok = "False" <=> validated.issues # {}

\* C20 as stated: each of the nine conditions puts its finding on the list the
\* claim names, max_cll < max_fall being a warning, and False is returned
\* exactly when there is an error.
C20_FindingsAsListed ==
    Validated =>
        /\ FieldFindingsAsListed
        /\ ValidatedValue("max_cll") < ValidatedValue("max_fall")
              <=> "MaxCLL < MaxFALL" \in validated.warnings
        /\ ReturnsFalseOnErrorsOnly

\* C20, amended: as above, but max_cll < max_fall is a warning only when both
\* values are positive (a value that is not is an error already), and the
\* warnings are printed only when there is no error.
C20_FindingsAsListedWhenPositive ==
    Validated =>
        /\ FieldFindingsAsListed
        /\ (/\ ValidatedValue("max_cll") > 0
            /\ ValidatedValue("max_fall") > 0
            /\ ValidatedValue("max_cll") < ValidatedValue("max_fall"))
              <=> "MaxCLL < MaxFALL" \in validated.warnings
        /\ ReturnsFalseOnErrorsOnly
        /\ validated.printed = IF validated.issues # {} THEN validated.issues
                               ELSE validated.warnings

\* A record with warnings only, the implausible pair among them: True is
\* returned.
C20_Witness ==
    /\ Validated
    /\ ValidatedValue("max_cll") = 1
    /\ ValidatedValue("max_fall") = 10001
    /\ validated.warnings = {"MaxDML unusually low", "MaxFALL exceeds range",
                             "MaxCLL < MaxFALL"}
    /\ validated.issues = {}
    /\ validated.ok = "True"

\* ----------------------------------------------------------------- C14

\* The steps of convert_file in the order of its code; the preparation of the
\* branch is one of five, and two of them can follow each other.
StepOrder ==
    <<"branch preparation", "static metadata", "trim targets", "extra.json",
      "generate rpu", "extract bl", "inject rpu", "mux", "post-mux">>
BranchSteps == {"extract hdr10plus", "measurements", "analyze hlg", "hlg to pq", "unsupported"}
Rank(name) ==
    IF name \in BranchSteps THEN 1
    ELSE CHOOSE i \in 1..Len(StepOrder) : StepOrder[i] = name

StepRan(name) == \E i \in 1..Len(steps) : steps[i].name = name
StepOk(name) == \E i \in 1..Len(steps) : steps[i].name = name /\ steps[i].outcome = "ok"

\* The steps that have run are an initial part of the order, none left out and
\* none run twice after the branch, each one run after the one before it had
\* succeeded; mkvmerge has run only after the three steps before it succeeded.
StepsInOrder ==
    /\ \A i \in 1..Len(steps) :
          IF i = 1 THEN Rank(steps[i].name) = 1
          ELSE /\ steps[i - 1].outcome = "ok"
               /\ \/ Rank(steps[i].name) = Rank(steps[i - 1].name) + 1
                  \/ Rank(steps[i].name) = 1 /\ Rank(steps[i - 1].name) = 1
    /\ Invoked("mkvmerge") =>
          StepOk("generate rpu") /\ StepOk("extract bl") /\ StepOk("inject rpu")

\* C14: the steps of one file run in the order branch preparation, static
\* metadata, trim targets, extra.json, RPU generation, base-layer extraction,
\* RPU injection, mux; a step that fails is the last one of the file and
\* convert_file returns False.
C14_StepsInOrderAndAbort ==
    /\ StepsInOrder
    /\ \A i \in 1..Len(steps) :
          (Rank(steps[i].name) <= 8 /\ steps[i].outcome # "ok") =>
              (i = Len(steps) /\ result = "False")

\* ----------------------------------------------------------------- C15

PostMuxRan == StepRan("post-mux")
VerifierTools == {"verifier", "dovi_tool extract-rpu", "dovi_tool info"}

\* C15: without --verify verify_post_mux is not called, none of its tools is
\* run, and a file whose output exists after the mux is a success; with
\* --verify a converted file is a success only if verify_post_mux returned True.
C15_VerificationFatalOnRequest ==
    /\ ~args.verify =>
          /\ verified = NotVerified
          /\ \A tool \in VerifierTools : ~Invoked(tool)
          /\ (PostMuxRan /\ OutputFile \in directory) => result = "True"
    /\ (args.verify /\ PostMuxRan /\ result = "True") =>
          (VerifyCalled /\ verified.raised = None /\ verified.ok = TRUE)

\* With --verify: the output was written and verify_post_mux returned False,
\* so the file is a failure and nothing is cleaned up.
C15_Witness ==
    /\ args.verify
    /\ PostMuxRan
    /\ OutputFile \in directory
    /\ VerifyCalled
    /\ verified.raised = None
    /\ verified.ok = FALSE
    /\ result = "False"
    /\ InputFile \in directory

\* ----------------------------------------------------------------- C16

TimesInvoked(tool) == Cardinality({i \in 1..Len(invoked) : invoked[i] = tool})
LastStep == steps[Len(steps)]

\* C16: in the HDR10_UNSUPPORTED branch a measurements file that is found is
\* used as it is, without any call of the analyzer, whatever
\* --boost-experimental says; without one run_hdr_analyzer is called once, on
\* the source, its command carries --downscale 2 --sample-rate 3 and carries
\* --optimizer-profile aggressive exactly when --boost-experimental is set, and
\* the file fails when it gives no measurements.
C16_UnsupportedMeasurements ==
    (hdr_type = HDR10_UNSUPPORTED /\ StepRan("measurements")) =>
        IF found # None
        THEN /\ measurements_file = found
             /\ analyzer_calls = <<>>
             /\ ~AnalyzerInvoked
             /\ StepOk("measurements")
             /\ StepRan("generate rpu") => rpu_call.measurements_file = found
        ELSE /\ Len(analyzer_calls) = 1
             /\ analyzer_calls[1].source_file = InputFile
             /\ TimesInvoked("hdr_analyzer_mvp") <= 1
             /\ AnalyzerInvoked =>
                  analyzer_calls[1].cmd =
                      <<"hdr_analyzer_mvp", "movie.mkv", "-o", "movie_measurements.bin",
                        "--downscale", "2", "--sample-rate", "3">>
                      \o (IF args.boost_experimental
                          THEN <<"--optimizer-profile", "aggressive">> ELSE <<>>)
             /\ IF measurements_file = None
                THEN result = "False" /\ LastStep.name = "measurements"
                ELSE measurements_file = "movie_measurements.bin" /\ StepOk("measurements")

\* A file classified HDR10_UNSUPPORTED without a measurements file and without
\* --boost-experimental: the analyzer ran once and the conversion succeeded on
\* its output.
C16_Witness ==
    /\ hdr_checked.value = HDR10_UNSUPPORTED
    /\ hdr_type = HDR10_UNSUPPORTED
    /\ found = None
    /\ ~args.boost_experimental
    /\ Len(analyzer_calls) = 1
    /\ TimesInvoked("hdr_analyzer_mvp") = 1
    /\ rpu_call.measurements_file = "movie_measurements.bin"
    /\ result = "True"

\* ----------------------------------------------------------------- C17

\* C17: a file classified HDR10_WITH_MEASUREMENTS whose measurements file is
\* not found by convert_file is failed there: False is returned, the analyzer
\* is not called and no later step runs.
C17_MissingMeasurementsIsFatal ==
    (hdr_type = HDR10_WITH_MEASUREMENTS /\ StepRan("measurements") /\ found = None) =>
        /\ result = "False"
        /\ analyzer_calls = <<>>
        /\ ~AnalyzerInvoked
        /\ Len(steps) = 1
        /\ measurements_file = None

\* The classifier saw a measurements file, it was gone when convert_file looked
\* for it, and the call has returned.
C17_Witness ==
    /\ hdr_checked.value = HDR10_WITH_MEASUREMENTS
    /\ find_measurements_file(InputFile, entry_dir) # None
    /\ StepRan("measurements")
    /\ found = None
    /\ pc = "returned"
    /\ result = "False"

\* ----------------------------------------------------------------- C18

BaseLayerExtractions ==
    {invoked[i] : i \in {j \in 1..Len(invoked) : StartsWith(invoked[j], "ffmpeg extract bl")}}

\* C18: for a file classified HLG convert_file does not look for a measurements
\* file: run_hdr_analyzer is called once, on the source, with --hlg-peak-nits;
\* then the source is re-encoded to PQ, and the base layer is extracted from the
\* PQ file and from nothing else; the file fails when the analyzer or the
\* re-encode fails.
C18_HlgAnalyzedAndReencoded ==
    (hdr_type = HLG /\ steps # <<>>) =>
        /\ steps[1].name = "analyze hlg"
        /\ found = Pending
        /\ Len(analyzer_calls) = 1
        /\ analyzer_calls[1].source_file = InputFile
        /\ AnalyzerInvoked =>
              analyzer_calls[1].cmd =
                  <<"hdr_analyzer_mvp", "movie.mkv", "-o", "movie_measurements.bin",
                    "--downscale", "2", "--sample-rate", "3", "--hlg-peak-nits", "1000">>
                  \o (IF args.boost_experimental
                      THEN <<"--optimizer-profile", "aggressive">> ELSE <<>>)
        /\ steps[1].outcome # "ok" => (result = "False" /\ Len(steps) = 1)
        /\ Len(steps) > 1 =>
              /\ steps[2].name = "hlg to pq"
              /\ Invoked("ffmpeg hlg to pq") \/ steps[2].outcome = "raised"
              /\ steps[2].outcome = "failed" => result = "False"
              /\ steps[2].outcome # "ok" => (result # "True" /\ Len(steps) = 2)
              /\ Len(steps) > 2 => bl_source_file = "movie_HLG_to_PQ.mkv"
        /\ BaseLayerExtractions \subseteq {"ffmpeg extract bl -i movie_HLG_to_PQ.mkv"}
        /\ Invoked("mkvmerge") => BaseLayerExtractions # {}

\* An HLG file next to a measurements file: the analyzer was run all the same,
\* the base layer came from the PQ file and the conversion succeeded.
C18_Witness ==
    /\ hdr_type = HLG
    /\ find_measurements_file(InputFile, entry_dir) # None
    /\ TimesInvoked("hdr_analyzer_mvp") = 1
    /\ Invoked("ffmpeg hlg to pq")
    /\ Invoked("ffmpeg extract bl -i movie_HLG_to_PQ.mkv")
    /\ Invoked("mkvmerge")
    /\ result = "True"

\* ----------------------------------------------------------------- C19

\* C19: whatever validate_static_metadata says of the record that was read, the
\* call goes on: the step is never a failure, the trim targets are derived next,
\* and extra.json is written from that record and those targets.
C19_ValidationNeverBlocks ==
    StepRan("static metadata") =>
        /\ \A i \in 1..Len(steps) :
              steps[i].name = "static metadata" =>
                  /\ steps[i].outcome \in {"ok", "raised"}
                  /\ steps[i].outcome = "ok" <=> static_meta.raised = None
                  /\ (steps[i].outcome = "ok" /\ i = Len(steps)) => pc = "trims"
                  /\ (steps[i].outcome = "ok" /\ i < Len(steps)) =>
                        steps[i + 1].name = "trim targets"
        /\ StepOk("static metadata") <=> Validated
        /\ StepOk("extra.json") =>
              /\ extra_json.target_nits = trim_targets
              /\ extra_json.level6 =
                    [max_display_mastering_luminance |-> static_meta.value["max_dml"],
                     min_display_mastering_luminance |->
                        (static_meta.value["min_dml"] * 10000) \div Scale,
                     max_content_light_level |-> static_meta.value["max_cll"],
                     max_frame_average_light_level |-> static_meta.value["max_fall"]]

\* A record that fails the validation (MaxDML of 40000 nits from the
\* Details.txt): extra.json carries it and the conversion succeeds.
C19_Witness ==
    /\ Validated
    /\ validated.ok = "False"
    /\ "MaxDML exceeds range" \in validated.issues
    /\ StepOk("extra.json")
    /\ extra_json.level6.max_display_mastering_luminance = 40000
    /\ result = "True"

\* ----------------------------------------------------------------- C21

BothVerified == verified # NotVerified /\ other_verified # NotVerified

\* The three frame counts of the second call.
OtherCounts ==
    <<IF other_call.measurements_file # None /\ other_call.measurements_file \in directory
      THEN parse_frame_count_from_verifier_log(other_call.tools.verifier_log)
      ELSE NoNumber,
      get_frame_count_from_mediainfo(other_call.tools.output_json),
      frames_in_rpu(other_call.tools.info_log)>>

\* The two calls agree on everything but the profile and the HDR format fields.
SameOutcomesAndCounts ==
    /\ other_call.measurements_file = verify_call.measurements_file
    /\ other_call.tools.verifier_ok = verify_call.tools.verifier_ok
    /\ other_call.tools.extract_ok = verify_call.tools.extract_ok
    /\ other_call.tools.info_ok = verify_call.tools.info_ok
    /\ OtherCounts = <<MeasurementFrames, ContainerFrames, RpuFrames>>

\* C21: two calls of verify_post_mux with the same tool outcomes and the same
\* frame counts return the same value, whatever profile the RPU summary names
\* in each and whether or not the HDR format fields of each name Dolby Vision.
C21_AdvisoryChecksDoNotDecide ==
    (BothVerified /\ SameOutcomesAndCounts) =>
        /\ verified.raised = other_verified.raised
        /\ verified.ok = other_verified.ok
        /\ verified.reports = other_verified.reports

\* One call on a Profile 8.1 summary and a Dolby Vision track, the other on a
\* profile 7 summary and an HDR10 track: the second has both warnings, and both
\* return True.
C21_Witness ==
    /\ BothVerified
    /\ SameOutcomesAndCounts
    /\ MeasurementFrames = 240
    /\ ContainerFrames = 240
    /\ RpuFrames = 240
    /\ verified.warnings = {}
    /\ other_verified.warnings = {"profile", "dolby vision tag"}
    /\ verified.ok = TRUE
    /\ other_verified.ok = TRUE

\* ----------------------------------------------------------------- C22

WrittenTargets == extra_json.target_nits

\* C22: the list of targets that convert_file writes into extra.json is
\* strictly increasing (ordered, without repetition) and lies within
\* [80, 10000], whether it was derived from the Details.txt or taken from
\* --trim-targets.
C22_WrittenTargetsAreOrderedSet ==
    StepOk("extra.json") =>
        /\ \A i \in 1..Len(WrittenTargets) : 80 <= WrittenTargets[i] /\ WrittenTargets[i] <= 10000
        /\ \A i \in 1..(Len(WrittenTargets) - 1) : WrittenTargets[i] < WrittenTargets[i + 1]

\* ----------------------------------------------------------------- C23

\* C23: two distinct input files that main processes in one run are given
\* distinct working subdirectories.
C23_DistinctFilesDistinctDirs ==
    \A i, j \in 1..Len(file_temp_dirs) :
        file_temp_dirs[i].file # file_temp_dirs[j].file
            => file_temp_dirs[i].dir # file_temp_dirs[j].dir

\* ----------------------------------------------------------------- C24

LastLookup == mi_lookups'[Len(mi_lookups')]

\* C24: an entry of MI_JSON_CACHE is never removed or replaced; a call for a
\* path that has an entry returns that entry, runs no mediainfo and leaves the
\* cache as it is; a call whose probe fails stores nothing.
C24_CacheEntriesAreFinal ==
    [][ /\ \A key \in DOMAIN MI_JSON_CACHE :
              key \in DOMAIN MI_JSON_CACHE' /\ MI_JSON_CACHE'[key] = MI_JSON_CACHE[key]
        /\ mi_lookups' # mi_lookups =>
              /\ abspath(LastLookup.path) \in DOMAIN MI_JSON_CACHE =>
                    /\ LastLookup.json = MI_JSON_CACHE[abspath(LastLookup.path)]
                    /\ LastLookup.calls = <<>>
                    /\ MI_JSON_CACHE' = MI_JSON_CACHE
              /\ abspath(LastLookup.path) \notin DOMAIN MI_JSON_CACHE =>
                    /\ LastLookup.calls = <<"mediainfo --Output=JSON">>
                    /\ LastLookup.json.kind = "fail" => MI_JSON_CACHE' = MI_JSON_CACHE
                    /\ LastLookup.json.kind # "fail" =>
                          DOMAIN MI_JSON_CACHE' = DOMAIN MI_JSON_CACHE \cup {abspath(LastLookup.path)}
      ]_vars

\* The input was looked up under one spelling, rewritten, and looked up under
\* another: the second call ran no mediainfo and returned the entry of the
\* first, which is no longer what mediainfo prints; a failed probe in between
\* or before left no entry.
C24_Witness ==
    \E i, j \in 1..Len(mi_lookups) :
        /\ i < j
        /\ mi_lookups[i].path # mi_lookups[j].path
        /\ abspath(mi_lookups[i].path) = abspath(mi_lookups[j].path)
        /\ mi_lookups[i].calls # <<>>
        /\ mi_lookups[j].calls = <<>>
        /\ mi_lookups[j].json = mi_lookups[i].json
        /\ mi_lookups[j].json # probe.json

\* ----------------------------------------------------------------- C25

\* check_hdr_format has returned a variant in the current call.
VariantReturned == hdr_checked.raised = None /\ hdr_checked.value # Pending

\* C25 as stated: after the classification hdr_type is, at every step of the
\* call, the value check_hdr_format returned.
C25_VariantIsTheClassifiers == VariantReturned => hdr_type = hdr_checked.value

\* C25, amended: hdr_type is the value check_hdr_format returned, except that
\* HDR10_PLUS has become HDR10_UNSUPPORTED, once, when the extraction found no
\* dynamic metadata; the RPU is generated as HDR10_PLUS exactly when hdr_type is
\* HDR10_PLUS at that step, and as HDR10_WITH_MEASUREMENTS otherwise.
C25_VariantChangesByFallbackOnly ==
    VariantReturned =>
        /\ hdr_type = IF reclassified THEN HDR10_UNSUPPORTED ELSE hdr_checked.value
        /\ reclassified => hdr_checked.value = HDR10_PLUS /\ hdr10plus_json = None
        /\ StepRan("generate rpu") =>
              /\ rpu_call.hdr_type \in {HDR10_PLUS, HDR10_WITH_MEASUREMENTS}
              /\ rpu_call.hdr_type = HDR10_PLUS <=> hdr_type = HDR10_PLUS

\* A file classified as HDR10+ without dynamic metadata has gone down the
\* HDR10_UNSUPPORTED branch and its RPU was generated from measurements.
C25_Witness ==
    /\ VariantReturned
    /\ hdr_checked.value = HDR10_PLUS
    /\ hdr_type = HDR10_UNSUPPORTED
    /\ StepOk("generate rpu")
    /\ rpu_call.hdr_type = HDR10_WITH_MEASUREMENTS

\* ----------------------------------------------------------------- C26

\* The files a step has removed from the directory.
Deleted == directory \ directory'

\* A step of convert_file or of main, not one of another process.
ProgramStep == convertVars' # convertVars

\* C26: convert_file deletes files only in the step in which it returns True
\* after mkvmerge succeeded and with the output in place, with --verify only
\* when verify_post_mux returned True, and then nothing but the source, a
\* measurements file and a Details.txt; a call that returns False, raises or
\* skips the file deletes nothing.
C26_DeletionOnSuccessOnly ==
    [][ (ProgramStep /\ Deleted # {}) =>
            /\ pc = "post_mux"
            /\ pc' = "returned"
            /\ result' = "True"
            /\ \E i \in 1..Len(steps) : steps[i].name = "mux" /\ steps[i].outcome = "ok"
            /\ OutputFile \in directory
            /\ OutputFile \in directory'
            /\ ~args.keep_source
            /\ args.verify => verified'.raised = None /\ verified'.ok = TRUE
            /\ Deleted \subseteq {InputFile} \cup MeasurementNames \cup DetailsNames
      ]_vars

\* A verified conversion has returned True and has removed the source and the
\* measurements file that were there when it began.
C26_Witness ==
    /\ pc = "returned"
    /\ result = "True"
    /\ args.verify
    /\ StepOk("post-mux")
    /\ verified.raised = None
    /\ verified.ok = TRUE
    /\ InputFile \in entry_dir
    /\ InputFile \notin directory
    /\ entry_dir \cap MeasurementNames # {}
    /\ directory \cap MeasurementNames = {}
    /\ OutputFile \in directory

\* ----------------------------------------------------------------- C27

\* The keys one of the two sources gave with the value 0.
ZeroFromSource ==
    {k \in MetadataKeys :
        \/ k \in DOMAIN static_meta.details /\ static_meta.details[k] = 0
        \/ k \notin DOMAIN static_meta.details
           /\ k \in DOMAIN static_meta.mediainfo /\ static_meta.mediainfo[k] = 0}

\* C27: a record get_static_metadata returns has the four fields, all greater
\* than 0; validate_static_metadata finds no error in it other than the range
\* of max_dml, and convert_file validates no other record.
C27_ReturnedRecordIsPositive ==
    MetadataReturned =>
        /\ DOMAIN static_meta.value = MetadataKeys
        /\ \A k \in MetadataKeys : static_meta.value[k] > 0
        /\ validate_static_metadata(static_meta.value).issues \subseteq {"MaxDML exceeds range"}
        /\ Validated => validated = validate_static_metadata(static_meta.value)

\* A source gave a 0, which the default replaced, and the one error that is
\* left was found: max_dml above 10000.
C27_Witness ==
    /\ MetadataReturned
    /\ Validated
    /\ ZeroFromSource # {}
    /\ \A k \in ZeroFromSource : static_meta.value[k] = defaults[k]
    /\ validated.issues = {"MaxDML exceeds range"}

\* ----------------------------------------------------------------- C28

\* The command line generate_rpu builds from what convert_file passed, "" when
\* it returns with one of its two "requires a ... file" errors.
RpuInput ==
    generate_rpu_input(rpu_call.hdr_type, rpu_call.metadata_file, rpu_call.measurements_file)

\* C28: when convert_file calls generate_rpu, either the HDR10+ JSON is set and
\* the measurements file is not, the file being one classified HDR10_PLUS whose
\* metadata was extracted and the type passed HDR10_PLUS, or the measurements
\* file is set and the JSON is not, on any other branch, the type passed being
\* HDR10_WITH_MEASUREMENTS; generate_rpu then has the input its type requires
\* and runs dovi_tool.
C28_ExactlyOneRpuInput ==
    StepRan("generate rpu") =>
        /\ (rpu_call.metadata_file # None) # (rpu_call.measurements_file # None)
        /\ rpu_call.metadata_file # None =>
              /\ rpu_call.hdr_type = HDR10_PLUS
              /\ hdr_type = HDR10_PLUS
              /\ hdr_checked.value = HDR10_PLUS
              /\ StepOk("extract hdr10plus")
        /\ rpu_call.measurements_file # None =>
              /\ rpu_call.hdr_type = HDR10_WITH_MEASUREMENTS
              /\ hdr_type \in {HDR10_WITH_MEASUREMENTS, HDR10_UNSUPPORTED, HLG}
        /\ RpuInput # ""
        /\ \E i \in 1..Len(invoked) : invoked[i] = "dovi_tool generate " \o RpuInput

\* The RPU of an HDR10+ file has been generated from the extracted JSON, no
\* measurements file being set although one lies next to the input.
C28_Witness ==
    /\ StepOk("generate rpu")
    /\ rpu_call.metadata_file # None
    /\ rpu_call.measurements_file = None
    /\ rpu_call.hdr_type = HDR10_PLUS
    /\ directory \cap MeasurementNames # {}

====
